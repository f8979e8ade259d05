----------------------------- MODULE NodeProofs -----------------------------
(***************************************************************************)
(* NodeState for any block universe, transactions and worlds, in four      *)
(* parts.  The pool: a crash puts the chain state back to its initial one, *)
(* so the invariant of ChainProofs holds in every process, and the pool is *)
(* emptied by every crash before the file is loaded again, so what is in   *)
(* it was validated at the tip or survived update_for_block there.  The    *)
(* bridge: a queued file is held, in the pool or on the chain, from then   *)
(* on.  Mining: the transactions of a template are valid one by one and    *)
(* share no input, so a block made from it applies as a whole, whatever    *)
(* the tip has become.  The chain file: what is saved is a branch whose    *)
(* headers and replay are good, and these depend on the branch alone, so a *)
(* new process accepts it block by block.                                  *)
(***************************************************************************)
EXTENDS NodeState, ChainProofs

\* What the actions take from the world and from the data directory.
NodeTypes ==
    /\ setup \in Worlds
    /\ mined \subseteq Blocks
    /\ disk \in Seq(Blocks)
    /\ loaded \in Nat \ {0}
    /\ ApplyChain(<<Genesis>>).ok

\* The conflict index names the one pooled spender of every output.
IndexExact ==
    /\ DOMAIN spends = UNION {Spent(tx) : tx \in pool}
    /\ \A tx \in pool : \A op \in Spent(tx) : spends[op] = tx.txid
    /\ \A t, u \in pool : t.txid = u.txid => t = u

PoolInv ==
    /\ IndexExact
    /\ PoolMinable
    /\ mode # "run" => pool = {}

NodeInv == ChainInv /\ NodeTypes /\ PoolInv

-----------------------------------------------------------------------------
\* add_block reports a new tip, or leaves chain and ledger as they were.
LEMMA AddBlockReports ==
    ASSUME NEW b, NEW body, AddBlock(b, body)
    PROVE  ret'.res = "active" \/ UNCHANGED <<active, utxos>>
<1>1. CASE RejectDuplicate(b, body) \/ RejectUnknownParent(b, body) \/ RejectHeader(b, body)
  BY <1>1 DEF RejectDuplicate, RejectUnknownParent, RejectHeader
<1>2. CASE KeepSideBlock(b, body)
  BY <1>2 DEF KeepSideBlock
<1>3. CASE ExtendTip(b, body)
  <2>1. Returns(b, body, "active") \/ UNCHANGED <<active, utxos>>
    BY <1>3 DEF ExtendTip
  <2> QED BY <2>1 DEF Returns
<1>4. CASE Reorg(b, body)
  <2>1. Returns(b, body, "active") \/ UNCHANGED <<active, utxos>>
    BY <1>4 DEF Reorg
  <2> QED BY <2>1 DEF Returns
<1> QED BY <1>1, <1>2, <1>3, <1>4 DEF AddBlock

LEMMA AddBlockKeepsChain ==
    ASSUME ChainInv, NEW b \in Blocks, NEW body \in BOOLEAN, AddBlock(b, body)
    PROVE  ChainInv'
  BY NextInv DEF Next

LEMMA QuietKeepsChain ==
    ASSUME ChainInv, UNCHANGED chainVars
    PROVE  ChainInv'
  BY NextInv

\* A new process begins with the genesis block and an empty mempool.
LEMMA ForgetRestarts ==
    ASSUME NodeTypes, Forget
    PROVE  /\ ChainInv'
           /\ pool' = {} /\ DOMAIN spends' = {} /\ loaded' = 1
<1>1. Init'
  BY DEF Init, Forget, NodeTypes, ApplyChain, ReplayRun
<1>2. ChainInv'
  BY <1>1, InitInv, PTL
<1> QED BY <1>2 DEF Forget, EmptySpends

\* An insertion the mempool accepts neither reuses an output nor an id.
LEMMA InsertKeepsIndex ==
    ASSUME IndexExact, NEW tx, Insert(tx)
    PROVE  IndexExact'
<1>1. CASE Verdict(tx) # "ok"
  BY <1>1 DEF Insert, poolVars, IndexExact
<1>2. CASE Verdict(tx) = "ok"
  <2>1. tx.txid \notin PoolTxids /\ Spent(tx) \cap DOMAIN spends = {}
    BY <1>2 DEF Verdict
  <2>2. /\ pool' = pool \cup {tx}
        /\ spends' = [op \in DOMAIN spends \cup Spent(tx) |->
                         IF op \in Spent(tx) THEN tx.txid ELSE spends[op]]
    BY <1>2 DEF Insert
  <2>3. DOMAIN spends' = UNION {Spent(t) : t \in pool'}
    BY <2>2 DEF IndexExact
  <2>4. ASSUME NEW t \in pool', NEW op \in Spent(t)
        PROVE  spends'[op] = t.txid
    <3>1. CASE t \in pool
      <4>1. op \in DOMAIN spends
        BY <3>1, <2>4 DEF IndexExact
      <4>2. op \notin Spent(tx)
        BY <4>1, <2>1
      <4> QED BY <2>2, <3>1, <4>1, <4>2 DEF IndexExact
    <3>2. CASE t = tx
      BY <2>2, <3>2
    <3> QED BY <2>2, <3>1, <3>2
  <2>5. \A t, u \in pool' : t.txid = u.txid => t = u
    BY <2>1, <2>2 DEF PoolTxids, IndexExact
  <2> QED BY <2>3, <2>4, <2>5 DEF IndexExact
<1> QED BY <1>1, <1>2

LEMMA InsertKeepsMinable ==
    ASSUME PoolMinable, mode = "run", NEW tx, Insert(tx), UNCHANGED <<mode, active, utxos>>
    PROVE  PoolMinable'
<1>1. \A t : ValidNext(t)' = ValidNext(t)
  BY DEF ValidNext, Height
<1>2. CASE Verdict(tx) = "ok"
  <2>1. ValidNext(tx)
    BY <1>2 DEF Verdict
  <2>2. pool' = pool \cup {tx}
    BY <1>2 DEF Insert
  <2> QED BY <1>1, <2>1, <2>2 DEF PoolMinable
<1>3. CASE Verdict(tx) # "ok"
  <2>1. pool' = pool
    BY <1>3 DEF Insert, poolVars
  <2> QED BY <1>1, <2>1 DEF PoolMinable
<1> QED BY <1>2, <1>3

\* Removing pooled transactions frees exactly their outputs.
LEMMA RemoveKeepsIndex ==
    ASSUME IndexExact, NEW gone \in SUBSET pool, RemoveAll(gone)
    PROVE  IndexExact'
<1>1. /\ pool' = pool \ gone
      /\ spends' = [op \in DOMAIN spends \ UNION {Spent(t) : t \in gone} |-> spends[op]]
  BY DEF RemoveAll
<1>2. ASSUME NEW t \in pool, NEW u \in pool, NEW op \in Spent(t), op \in Spent(u)
      PROVE  t = u
  BY <1>2 DEF IndexExact
<1>3. DOMAIN spends' = UNION {Spent(t) : t \in pool'}
  BY <1>1, <1>2 DEF IndexExact
<1>4. ASSUME NEW t \in pool', NEW op \in Spent(t)
      PROVE  spends'[op] = t.txid
  BY <1>1, <1>3, <1>4 DEF IndexExact
<1>5. \A t, u \in pool' : t.txid = u.txid => t = u
  BY <1>1 DEF IndexExact
<1> QED BY <1>3, <1>4, <1>5 DEF IndexExact
-----------------------------------------------------------------------------
\* accept_block keeps the chain and the pool, whatever add_block returns.
LEMMA AcceptBlockKeeps ==
    ASSUME NodeInv, NEW b \in Blocks, NEW body \in BOOLEAN, AcceptBlock(b, body),
           mode = "run", UNCHANGED mode
    PROVE  ChainInv' /\ PoolInv' /\ disk' \in Seq(Blocks)
<1>1. AddBlock(b, body)
  BY DEF AcceptBlock
<1>2. ChainInv'
  BY <1>1, AddBlockKeepsChain DEF NodeInv
<1>3. CASE ret'.res = "active"
  <2>1. RemoveAll(Evicted(b)) /\ Save
    BY <1>3 DEF AcceptBlock
  <2>2. Evicted(b) \in SUBSET pool
    BY DEF Evicted
  <2>3. IndexExact'
    BY <2>1, <2>2, RemoveKeepsIndex DEF NodeInv, PoolInv
  <2>4. PoolMinable'
    <3>1. Height' + 1 = Len(active')
      BY <1>2 DEF Height, ChainInv, TypeOK
    <3>2. ASSUME NEW tx \in pool'
          PROVE  ~IsCoinbase(tx) /\ TxOk(tx, Len(active'), utxos')
      <4>1. tx \in pool /\ tx \notin Evicted(b)
        BY <2>1 DEF RemoveAll
      <4> QED BY <4>1 DEF Evicted
    <3>3. \A tx \in pool' : ValidNext(tx)'
      BY <3>1, <3>2 DEF ValidNext
    <3> QED BY <3>3 DEF PoolMinable
  <2>5. disk' \in Seq(Blocks)
    BY <1>2, <2>1 DEF Save, NodeInv, NodeTypes, ChainInv, TypeOK
  <2> QED BY <1>2, <2>3, <2>4, <2>5 DEF PoolInv
<1>4. CASE ret'.res # "active"
  <2>1. UNCHANGED <<pool, spends, disk, active, utxos>>
    BY <1>1, <1>4, AddBlockReports DEF AcceptBlock, poolVars
  <2>2. \A t : ValidNext(t)' = ValidNext(t)
    BY <2>1 DEF ValidNext, Height
  <2>3. IndexExact' /\ PoolMinable'
    BY <2>1, <2>2 DEF NodeInv, PoolInv, IndexExact, PoolMinable
  <2> QED BY <1>2, <2>1, <2>3 DEF NodeInv, NodeTypes, PoolInv
<1> QED BY <1>3, <1>4

\* A step that leaves chain and mempool alone.
LEMMA IdleKeeps ==
    ASSUME NodeInv, UNCHANGED <<chainVars, poolVars>>,
           mode' = mode \/ pool = {},
           mode' # "run" => pool = {}
    PROVE  ChainInv' /\ PoolInv'
<1>1. ChainInv'
  BY QuietKeepsChain DEF NodeInv
<1>2. UNCHANGED <<pool, spends, active, utxos>>
  BY DEF chainVars, poolVars
<1>3. \A t : ValidNext(t)' = ValidNext(t)
  BY <1>2 DEF ValidNext, Height
<1> QED BY <1>1, <1>2, <1>3 DEF NodeInv, PoolInv, IndexExact, PoolMinable

LEMMA NodeInitInv == NodeInit => NodeInv
<1> SUFFICES ASSUME NodeInit PROVE NodeInv
  OBVIOUS
<1>1. ChainInv
  BY InitInv DEF NodeInit
<1>2. NodeTypes
  BY NodeAssumption, BlocksAssumption DEF NodeInit, NodeTypes, Init
<1>3. PoolInv
  BY DEF NodeInit, PoolInv, IndexExact, PoolMinable, EmptySpends
<1> QED BY <1>1, <1>2, <1>3 DEF NodeInv

LEMMA NodeNextInv == NodeInv /\ [NodeNext]_nodeVars => NodeInv'
<1> SUFFICES ASSUME NodeInv, [NodeNext]_nodeVars PROVE NodeInv'
  OBVIOUS
<1>0. /\ setup.foreign \subseteq Blocks /\ mined \subseteq Blocks
      /\ loaded \in Nat /\ disk \in Seq(Blocks) /\ active \in Seq(Blocks)
  BY DEF NodeInv, NodeTypes, Worlds, ChainInv, TypeOK
<1> DEFINE Keeps == ChainInv' /\ PoolInv' /\ disk' \in Seq(Blocks)
                      /\ mined' \subseteq Blocks /\ loaded' \in Nat \ {0}
<1>1. ASSUME NEW b \in setup.foreign \cup mined, ReceiveBlock(b, TRUE) PROVE Keeps
  BY <1>0, <1>1, AcceptBlockKeeps DEF ReceiveBlock, procVars, NodeInv, NodeTypes
<1>2. ASSUME NEW tx, SubmitTx(tx) \/ Bridge(tx) PROVE Keeps
  <2>1. /\ mode = "run" /\ Insert(tx)
        /\ UNCHANGED <<chainVars, procVars, disk, mined>>
    BY <1>2 DEF SubmitTx, Bridge
  <2>2. UNCHANGED <<mode, loaded, active, utxos>>
    BY <2>1 DEF chainVars, procVars
  <2>3. ChainInv'
    BY <2>1, QuietKeepsChain DEF NodeInv
  <2>4. IndexExact' /\ PoolMinable'
    BY <2>1, <2>2, InsertKeepsIndex, InsertKeepsMinable DEF NodeInv, PoolInv
  <2> QED BY <2>1, <2>2, <2>3, <2>4 DEF NodeInv, NodeTypes, PoolInv
<1>3. ASSUME NEW tx, QueueTx(tx) PROVE Keeps
  <2>1. UNCHANGED <<chainVars, poolVars, procVars, disk, mined>>
    BY <1>3 DEF QueueTx
  <2>2. UNCHANGED <<mode, loaded>>
    BY <2>1 DEF procVars
  <2> QED BY <2>1, <2>2, IdleKeeps DEF NodeInv, NodeTypes, PoolInv
<1>4. ASSUME StartJob \/ GiveUp PROVE Keeps
  <2>1. UNCHANGED <<chainVars, poolVars, procVars, disk, mined>>
    BY <1>4 DEF StartJob, GiveUp
  <2>2. UNCHANGED <<mode, loaded>>
    BY <2>1 DEF procVars
  <2> QED BY <2>1, <2>2, IdleKeeps DEF NodeInv, NodeTypes, PoolInv
<1>5. ASSUME NEW b \in Blocks, Found(b) PROVE Keeps
  <2>1. /\ mode = "run" /\ AcceptBlock(b, TRUE) /\ mined' = mined \cup {b}
        /\ UNCHANGED <<mode, loaded>>
    BY <1>5 DEF Found, procVars
  <2> QED BY <1>0, <2>1, AcceptBlockKeeps DEF NodeInv, NodeTypes
<1>6. ASSUME NEW off, Start(off) PROVE Keeps
  <2>1. /\ mode # "run" /\ mode' # "run"
        /\ UNCHANGED <<chainVars, poolVars, disk, mined, loaded>>
    BY <1>6 DEF Start
  <2> QED BY <2>1, IdleKeeps DEF NodeInv, NodeTypes, PoolInv
<1>7. ASSUME LoadBlock PROVE Keeps
  <2>1. /\ AddBlock(disk[loaded + 1], TRUE) /\ loaded < Len(disk) /\ loaded' = loaded + 1
        /\ UNCHANGED <<pool, spends, disk, mined>>
    BY <1>7 DEF LoadBlock, poolVars
  <2>2. mode # "run" /\ mode' # "run"
    BY <1>7 DEF LoadBlock
  <2>3. disk[loaded + 1] \in Blocks
    BY <1>0, <2>1
  <2>4. ChainInv'
    BY <2>1, <2>3, AddBlockKeepsChain DEF NodeInv
  <2>5. PoolInv'
    BY <2>1, <2>2 DEF NodeInv, PoolInv, IndexExact, PoolMinable
  <2> QED BY <2>1, <2>4, <2>5 DEF NodeInv, NodeTypes
<1>8. ASSUME LoadDone PROVE Keeps
  <2>1. /\ mode # "run" /\ UNCHANGED <<chainVars, poolVars, loaded, disk, mined>>
    BY <1>8 DEF LoadDone
  <2> QED BY <2>1, IdleKeeps DEF NodeInv, NodeTypes, PoolInv
<1>9. ASSUME NEW b \in Blocks, OfflineMine(b) PROVE Keeps
  <2>1. /\ mode # "run" /\ mode' # "run" /\ AddBlock(b, TRUE) /\ mined' = mined \cup {b}
        /\ UNCHANGED <<pool, spends, disk, loaded>>
    BY <1>9 DEF OfflineMine, poolVars
  <2>2. ChainInv'
    BY <2>1, AddBlockKeepsChain DEF NodeInv
  <2>3. PoolInv'
    BY <2>1 DEF NodeInv, PoolInv, IndexExact, PoolMinable
  <2> QED BY <1>0, <2>1, <2>2, <2>3 DEF NodeInv, NodeTypes
<1>10. ASSUME OfflineExit \/ Crash PROVE Keeps
  <2>1. /\ Forget /\ mode' # "run" /\ disk' \in {active, disk} /\ UNCHANGED mined
    BY <1>10 DEF OfflineExit, Crash
  <2>2. ChainInv' /\ pool' = {} /\ DOMAIN spends' = {} /\ loaded' = 1
    BY <2>1, ForgetRestarts DEF NodeInv
  <2>3. PoolInv'
    BY <2>1, <2>2 DEF PoolInv, IndexExact, PoolMinable
  <2> QED BY <1>0, <2>1, <2>2, <2>3
<1>11. CASE UNCHANGED nodeVars
  <2>1. UNCHANGED <<setup, chainVars, poolVars, mode, loaded, disk, mined>>
    BY <1>11 DEF nodeVars, procVars
  <2>2. ChainInv' /\ PoolInv'
    BY <2>1, IdleKeeps DEF NodeInv, PoolInv
  <2> QED BY <2>1, <2>2 DEF NodeInv, NodeTypes, ApplyChain, ReplayRun
<1>12. CASE Keeps /\ UNCHANGED setup
  BY <1>12 DEF NodeInv, NodeTypes, ApplyChain, ReplayRun
<1> QED BY <1>1, <1>2, <1>3, <1>4, <1>5, <1>6, <1>7, <1>8, <1>9, <1>10, <1>11, <1>12
        DEF NodeNext

\* The invariant of a node, through any blocks, transactions, crashes and
\* restarts.
THEOREM NodeInvariant == NodeSpec => []NodeInv
<1>1. NodeInit => NodeInv
  BY NodeInitInv
<1>2. NodeInv /\ [NodeNext]_nodeVars => NodeInv'
  BY NodeNextInv
<1> QED BY <1>1, <1>2, PTL DEF NodeSpec

\* After any sequence of insertions, blocks, reorganisations and restarts every
\* transaction in the mempool of a running node is valid in the next block.
THEOREM PoolStaysMinable == NodeSpec => []PoolMinable
  BY NodeInvariant, PTL DEF NodeInv, PoolInv

\* What ChainProofs shows for add_block alone holds in the process around it: at
\* every moment of every run, start-up and offline command included, the active
\* chain has the most work and the ledger is its replay.
THEOREM ChainHoldsInNode == NodeSpec => [](TipHasMostWork /\ LedgerIsReplay /\ SupplyWithinSchedule)
  BY NodeInvariant, PTL DEF NodeInv, ChainInv

\* No two pooled transactions spend one output, and the conflict index is
\* exactly the inputs of the pool with their spenders.
THEOREM PoolHasNoConflicts ==
    NodeSpec => [](IndexExact /\ \A t, u \in pool : t # u => Spent(t) \cap Spent(u) = {})
<1>1. NodeInv => (IndexExact /\ \A t, u \in pool : t # u => Spent(t) \cap Spent(u) = {})
  BY DEF NodeInv, PoolInv, IndexExact
<1> QED BY <1>1, NodeInvariant, PTL

-----------------------------------------------------------------------------
(***************************************************************************)
(* The byte count.                                                         *)
(***************************************************************************)
BytesExact ==
    /\ pool \subseteq Txs /\ IsFiniteSet(pool)
    /\ bytes = Sizes(pool)
    /\ bytes \in Nat /\ bytes <= MAX_MEMPOOL_BYTES

LEMMA SizesType ==
  ASSUME NEW ts \in SUBSET Txs, IsFiniteSet(ts)
  PROVE  Sizes(ts) \in Nat
<1>1. [tx \in ts |-> TX_SIZE(tx)] \in [ts -> Nat]
  BY NodeAssumption
<1> QED BY <1>1, SumType DEF Sizes

LEMMA SizesEmpty == Sizes({}) = 0
<1> DEFINE f == [tx \in {} |-> TX_SIZE(tx)]
<1>1. DOMAIN f = {}
  OBVIOUS
<1> HIDE DEF f
<1>2. SumFunction(f) = 0
  BY <1>1, SumEmpty
<1> QED BY <1>2 DEF Sizes, f

LEMMA SizesAdd ==
  ASSUME NEW ts \in SUBSET Txs, IsFiniteSet(ts), NEW tx \in Txs, tx \notin ts
  PROVE  Sizes(ts \cup {tx}) = Sizes(ts) + TX_SIZE(tx)
<1> DEFINE f == [t \in ts |-> TX_SIZE(t)]
           g == [t \in ts \cup {tx} |-> TX_SIZE(t)]
<1>1. f \in [ts -> Nat] /\ g \in [ts \cup {tx} -> Nat]
  BY NodeAssumption
<1>2. g[tx] = TX_SIZE(tx) /\ \A t \in ts : g[t] = f[t]
  OBVIOUS
<1>3. SumFunction(f) = Sizes(ts) /\ SumFunction(g) = Sizes(ts \cup {tx})
  BY DEF Sizes
<1> HIDE DEF f, g
<1>4. SumFunction(g) = SumFunction(f) + g[tx]
  BY <1>1, <1>2, SumAdd
<1> QED BY <1>2, <1>3, <1>4

\* What is removed and what stays make up the whole.
LEMMA SizesSplit ==
  ASSUME NEW ts \in SUBSET Txs, IsFiniteSet(ts), NEW gone \in SUBSET ts
  PROVE  Sizes(ts) = Sizes(ts \ gone) + Sizes(gone)
<1> DEFINE Splits(g) == Sizes(ts) = Sizes(ts \ g) + Sizes(g)
           S == {n \in Nat : \A g \in SUBSET ts : Cardinality(g) = n => Splits(g)}
<1>0. \A g \in SUBSET ts : IsFiniteSet(g) /\ Cardinality(g) \in Nat /\ g \in SUBSET Txs
  BY FS_Subset, FS_CardinalityType
<1>1. 0 \in S
  <2> SUFFICES ASSUME NEW g \in SUBSET ts, Cardinality(g) = 0 PROVE Splits(g)
    OBVIOUS
  <2>1. g = {} /\ ts \ g = ts
    BY <1>0, FS_EmptySet
  <2>2. Sizes(ts) \in Nat
    BY SizesType
  <2> QED BY <2>1, <2>2, SizesEmpty
<1>2. ASSUME NEW n \in Nat, n \in S PROVE n + 1 \in S
  <2> SUFFICES ASSUME NEW g \in SUBSET ts, Cardinality(g) = n + 1 PROVE Splits(g)
    OBVIOUS
  <2>1. PICK x : x \in g
    BY FS_EmptySet
  <2> DEFINE h == g \ {x}
             rest == ts \ g
  <2>2. Cardinality(h) = n
    <3>1. IsFiniteSet(g)
      BY <1>0
    <3>2. Cardinality(h) \in Nat /\ Cardinality(g) = Cardinality(h) + 1
      BY <2>1, <3>1, Smaller
    <3> QED BY <3>2
  <2>3. Sizes(ts) = Sizes(ts \ h) + Sizes(h)
    BY <1>2, <2>2
  <2>4. /\ ts \ h = rest \cup {x} /\ x \notin rest /\ rest \in SUBSET ts
        /\ g = h \cup {x} /\ x \notin h /\ h \in SUBSET ts /\ x \in Txs
    BY <2>1
  <2> HIDE DEF h, rest
  <2>5. /\ IsFiniteSet(rest) /\ rest \in SUBSET Txs
        /\ IsFiniteSet(h) /\ h \in SUBSET Txs
    BY <1>0, <2>4
  <2>6. Sizes(ts \ h) = Sizes(rest) + TX_SIZE(x)
    BY <2>4, <2>5, SizesAdd
  <2>7. Sizes(g) = Sizes(h) + TX_SIZE(x)
    BY <2>4, <2>5, SizesAdd
  <2>8. Sizes(rest) \in Nat /\ Sizes(h) \in Nat /\ TX_SIZE(x) \in Nat
    BY <2>4, <2>5, SizesType, NodeAssumption
  <2>9. Sizes(ts) = Sizes(rest) + Sizes(g)
    BY <2>3, <2>6, <2>7, <2>8
  <2> QED BY <2>9 DEF rest
<1>3. \A n \in Nat : n \in S
  <2> HIDE DEF S
  <2> QED BY <1>1, <1>2, NatSetInduction
<1> QED BY <1>0, <1>3

LEMMA InsertKeepsBytes ==
  ASSUME BytesExact, NEW tx \in Txs, Insert(tx)
  PROVE  BytesExact'
<1>1. CASE Verdict(tx) # "ok"
  BY <1>1 DEF Insert, poolVars, BytesExact, Sizes
<1>2. CASE Verdict(tx) = "ok"
  <2>1. tx \notin pool /\ ~(bytes + TX_SIZE(tx) > MAX_MEMPOOL_BYTES)
    BY <1>2 DEF Verdict, PoolTxids
  <2>2. pool' = pool \cup {tx} /\ bytes' = bytes + TX_SIZE(tx)
    BY <1>2 DEF Insert
  <2>3. Sizes(pool \cup {tx}) = Sizes(pool) + TX_SIZE(tx)
    BY <2>1, SizesAdd DEF BytesExact
  <2>4. IsFiniteSet(pool \cup {tx})
    BY FS_AddElement DEF BytesExact
  <2>5. TX_SIZE(tx) \in Nat /\ MAX_MEMPOOL_BYTES \in Nat
    BY NodeAssumption
  <2>6. bytes' \in Nat /\ bytes' <= MAX_MEMPOOL_BYTES
    BY <2>1, <2>2, <2>5 DEF BytesExact
  <2>7. bytes' = Sizes(pool')
    BY <2>2, <2>3 DEF BytesExact
  <2> QED BY <2>2, <2>4, <2>6, <2>7 DEF BytesExact
<1> QED BY <1>1, <1>2

LEMMA RemoveKeepsBytes ==
  ASSUME BytesExact, NEW gone \in SUBSET pool, RemoveAll(gone)
  PROVE  BytesExact'
<1>1. /\ pool' = pool \ gone
      /\ bytes' = IF bytes >= Sizes(gone) THEN bytes - Sizes(gone) ELSE 0
  BY DEF RemoveAll
<1>2. IsFiniteSet(gone) /\ IsFiniteSet(pool \ gone)
  BY FS_Subset DEF BytesExact
<1>3. Sizes(gone) \in Nat /\ Sizes(pool \ gone) \in Nat
  BY <1>2, SizesType DEF BytesExact
<1>4. bytes = Sizes(pool \ gone) + Sizes(gone)
  BY SizesSplit DEF BytesExact
<1>5. bytes' = Sizes(pool \ gone)
  BY <1>1, <1>3, <1>4
<1>6. bytes' <= MAX_MEMPOOL_BYTES /\ MAX_MEMPOOL_BYTES \in Nat
  BY <1>3, <1>4, <1>5, NodeAssumption DEF BytesExact
<1>7. bytes' = Sizes(pool') /\ pool' \subseteq Txs
  BY <1>1, <1>5 DEF BytesExact
<1> QED BY <1>1, <1>2, <1>3, <1>5, <1>6, <1>7 DEF BytesExact

LEMMA NextKeepsBytes == NodeInv /\ BytesExact /\ [NodeNext]_nodeVars => BytesExact'
<1> SUFFICES ASSUME NodeInv, BytesExact, [NodeNext]_nodeVars PROVE BytesExact'
  OBVIOUS
<1>1. ASSUME UNCHANGED poolVars PROVE BytesExact'
  BY <1>1 DEF poolVars, BytesExact, Sizes
<1>2. ASSUME NEW b, AcceptBlock(b, TRUE) PROVE BytesExact'
  <2>1. CASE ret'.res = "active"
    <3>1. RemoveAll(Evicted(b)) /\ Evicted(b) \in SUBSET pool
      BY <1>2, <2>1 DEF AcceptBlock, Evicted
    <3> QED BY <3>1, RemoveKeepsBytes
  <2>2. CASE ret'.res # "active"
    BY <1>1, <1>2, <2>2 DEF AcceptBlock
  <2> QED BY <2>1, <2>2
<1>3. ASSUME NEW b, ReceiveBlock(b, TRUE) \/ Found(b) PROVE BytesExact'
  BY <1>2, <1>3 DEF ReceiveBlock, Found
<1>4. setup.submitted \subseteq Txs /\ setup.queueable \subseteq Txs
  BY DEF NodeInv, NodeTypes, Worlds
<1>5. ASSUME NEW tx \in Txs, SubmitTx(tx) \/ Bridge(tx) PROVE BytesExact'
  BY <1>5, InsertKeepsBytes DEF SubmitTx, Bridge
<1>6. ASSUME OfflineExit \/ Crash PROVE BytesExact'
  <2>1. pool' = {} /\ bytes' = 0
    BY <1>6 DEF OfflineExit, Crash, Forget
  <2>2. MAX_MEMPOOL_BYTES \in Nat
    BY NodeAssumption
  <2> QED BY <2>1, <2>2, SizesEmpty, FS_EmptySet DEF BytesExact
<1>7. ASSUME \/ \E tx \in setup.queueable : QueueTx(tx)
             \/ StartJob \/ GiveUp \/ \E off \in BOOLEAN : Start(off)
             \/ LoadBlock \/ LoadDone \/ \E b \in Blocks : OfflineMine(b)
      PROVE  BytesExact'
  BY <1>1, <1>7 DEF QueueTx, StartJob, GiveUp, Start, LoadBlock, LoadDone, OfflineMine
<1>8. ASSUME UNCHANGED nodeVars PROVE BytesExact'
  BY <1>1, <1>8 DEF nodeVars
<1> QED BY <1>3, <1>4, <1>5, <1>6, <1>7, <1>8 DEF NodeNext

\* The mempool's books are exact in every reachable state: the index names the
\* spender of every input of the pool and nothing else, and the byte count is
\* the sum of the sizes and within its limit.
THEOREM PoolBooksExact == NodeSpec => []SpendsIndexPool
<1>1. NodeInit => BytesExact
  BY SizesEmpty, FS_EmptySet, NodeAssumption DEF NodeInit, BytesExact
<1>2. NodeInv /\ BytesExact => SpendsIndexPool
  BY DEF NodeInv, PoolInv, IndexExact, BytesExact, SpendsIndexPool
<1> QED BY <1>1, <1>2, NodeInitInv, NodeNextInv, NextKeepsBytes, PTL DEF NodeSpec

-----------------------------------------------------------------------------
(***************************************************************************)
(* Queued transactions.                                                    *)
(***************************************************************************)
\* Two valid transactions with one id are one transaction: the id fixes the
\* body, and the body and the spent outputs fix what a signature must be.
LEMMA SameTxid ==
  ASSUME NEW t \in Txs, NEW u \in Txs, t.txid = u.txid, NEW h, NEW m,
         TxOk(t, h, m), TxOk(u, h, m)
  PROVE  t = u
<1>1. t.inputs = u.inputs /\ t.outputs = u.outputs /\ t.data = u.data
  BY TxidAssumption
<1>2. Len(t.witnesses) = Len(u.witnesses) /\ Len(t.witnesses) = Len(t.inputs)
  BY <1>1 DEF TxOk
<1>3. Len(t.inputs) \in Nat /\ DOMAIN t.inputs = 1..Len(t.inputs)
  BY OutputsTyped
<1>4. ASSUME NEW i \in 1..Len(t.inputs)
      PROVE  /\ t.witnesses[i].pubkey = u.witnesses[i].pubkey
             /\ t.witnesses[i].sig = u.witnesses[i].sig
  <2>1. InputOk(t, i, h, m) /\ InputOk(u, i, h, m)
    BY <1>1, <1>3 DEF TxOk
  <2> QED BY <1>1, <2>1 DEF InputOk, Verify, Sighash
<1>5. t.witnesses = u.witnesses
  <2>1. \A tx \in Txs : tx.witnesses = [i \in 1..Len(tx.witnesses) |->
            [pubkey |-> tx.witnesses[i].pubkey, sig |-> tx.witnesses[i].sig]]
    BY TxsAssumption
  <2>2. /\ t.witnesses = [i \in 1..Len(t.inputs) |->
             [pubkey |-> t.witnesses[i].pubkey, sig |-> t.witnesses[i].sig]]
        /\ u.witnesses = [i \in 1..Len(t.inputs) |->
             [pubkey |-> u.witnesses[i].pubkey, sig |-> u.witnesses[i].sig]]
    BY <1>2, <2>1
  <2> QED BY <1>4, <2>2
<1>6. \A tx \in Txs : tx = [txid |-> tx.txid, inputs |-> tx.inputs, outputs |-> tx.outputs,
                            data |-> tx.data, witnesses |-> tx.witnesses]
  BY TxsAssumption
<1> QED BY <1>1, <1>5, <1>6

\* A new tip is the block that was added.
LEMMA NewTip ==
  ASSUME ChainInv, NEW b \in Blocks, NEW body \in BOOLEAN, AddBlock(b, body),
         ret'.res = "active"
  PROVE  active'[Len(active')] = b /\ b \notin all
<1>1. CASE ExtendTip(b, body)
  <2>1. active' = Append(active, b)
    <3>1. \/ Returns(b, body, "invalid") \/ Returns(b, body, "overflow")
          \/ active' = Append(active, b)
      BY <1>1 DEF ExtendTip
    <3> QED BY <3>1 DEF Returns
  <2> QED BY <1>1, <2>1 DEF ChainInv, TypeOK, ExtendTip, Inserts
<1>2. CASE Reorg(b, body)
  <2>1. PICK m, s, c : m = InsertMeta(b) /\ s = all \cup {b} /\ c = Walk(m, b)
    OBVIOUS
  <2>2. Returns(b, body, "invalid") \/ active' = c
    BY <1>2, <2>1 DEF Reorg
  <2>3. active' = c
    BY <2>2 DEF Returns
  <2>4. IsTree(m, s) /\ (\A x \in s : m[x] \in Metas) /\ b \in s
    BY <1>2, <2>1, InsertKeepsTree DEF Reorg
  <2>5. \A x \in s : m[x].height \in Nat
    BY <2>4, LedgerAssumption DEF Metas
  <2>6. Walk(m, b)[Len(Walk(m, b))] = b
    BY <2>4, <2>5, WalkIsPath
  <2> QED BY <1>2, <2>1, <2>3, <2>6 DEF Reorg, Inserts
<1> QED BY <1>1, <1>2
        DEF AddBlock, RejectDuplicate, RejectUnknownParent, RejectHeader, KeepSideBlock, Returns

\* What the active chain spends is not in the UTXO map.
NothingSpentHeld ==
    \A i \in DOMAIN active : \A k \in DOMAIN BLOCK[active[i]].txs :
        \A op \in Spent(BLOCK[active[i]].txs[k]) : op \notin DOMAIN utxos

LEMMA SpentIsGone == ChainInv => NothingSpentHeld
<1> SUFFICES ASSUME ChainInv, NEW i \in DOMAIN active, NEW k \in DOMAIN BLOCK[active[i]].txs,
                    NEW op \in Spent(BLOCK[active[i]].txs[k])
             PROVE  op \notin DOMAIN utxos
  BY DEF NothingSpentHeld
<1>1. UtxosAreTheUnspent
  BY ActiveHist
<1>2. <<i, k>> \in ActiveTxs /\ ActiveTx(<<i, k>>) = BLOCK[active[i]].txs[k]
  BY DEF ActiveTxs, ActiveTx
<1>3. op \in UNION {Spent(ActiveTx(p)) : p \in ActiveTxs}
  BY <1>2
<1> QED BY <1>1, <1>3 DEF UtxosAreTheUnspent

\* A block that extends the chain loses no queued transaction: what it evicts is
\* confirmed by it, or lost an input to the chain, or cannot follow the new tip.
LEMMA BlockKeepsQueued ==
  ASSUME NodeInv, NEW b \in Blocks, AcceptBlock(b, TRUE), UNCHANGED files, mode = "run",
         active = SubSeq(active', 1, Len(active)), NEW tx, Held(tx)
  PROVE  Kept(tx)'
<1>0. ChainInv /\ AddBlock(b, TRUE) /\ IndexExact
  BY DEF NodeInv, PoolInv, AcceptBlock
<1>1. ChainInv'
  BY <1>0, AddBlockKeepsChain
<1>2. /\ active \in Seq(Blocks) /\ Len(active) \in Nat
      /\ active' \in Seq(Blocks) /\ Len(active') \in Nat \ {0}
  BY <1>0, <1>1 DEF ChainInv, TypeOK
<1>3. CASE Confirmed(tx)
  <2>1. PICK i \in DOMAIN active : tx.txid \in BlockTxids(active[i])
    BY <1>3 DEF Confirmed
  <2>2. Len(active) <= Len(active')
    <3>1. CASE ret'.res # "active"
      <4>1. active' = active
        BY <1>0, <3>1, AddBlockReports
      <4> QED BY <1>2, <4>1
    <3>2. CASE ret'.res = "active"
      <4> SUFFICES ASSUME Len(active) > Len(active') PROVE FALSE
        BY <1>2
      <4>1. PICK n \in Nat, m \in Nat : n = Len(active) /\ m = Len(active')
        BY <1>2
      <4>2. active'[m] = b /\ b \notin all
        BY <1>0, <3>2, <4>1, NewTip
      <4>3. m \in 1..n /\ active[m] = active'[m]
        BY <1>2, <4>1
      <4>4. active[m] \in all
        BY <1>0, <1>2, <4>1, <4>3 DEF ChainInv, ActiveIsPath
      <4> QED BY <4>2, <4>3, <4>4
    <3> QED BY <3>1, <3>2
  <2>3. i \in DOMAIN active' /\ active'[i] = active[i]
    BY <1>2, <2>2
  <2>4. Confirmed(tx)'
    BY <2>1, <2>3 DEF Confirmed, BlockTxids
  <2> QED BY <2>4 DEF Kept, Held
<1>4. CASE tx \in files
  BY <1>4 DEF Kept, Held
<1>5. CASE tx \in pool /\ ret'.res # "active"
  <2>1. pool' = pool
    BY <1>5 DEF AcceptBlock, poolVars
  <2> QED BY <1>5, <2>1 DEF Kept, Held
<1>6. CASE tx \in pool /\ ret'.res = "active"
  <2>1. pool' = pool \ Evicted(b)
    BY <1>6 DEF AcceptBlock, RemoveAll
  <2>2. PICK n : n = Len(active') /\ n \in DOMAIN active' /\ active'[n] = b
    <3>1. active'[Len(active')] = b
      BY <1>0, <1>6, NewTip
    <3>2. Len(active') \in DOMAIN active'
      BY <1>2
    <3> QED BY <3>1, <3>2
  <2>3. CASE tx \notin Evicted(b)
    BY <1>6, <2>1, <2>3 DEF Kept, Held
  <2>4. CASE tx.txid \in BlockTxids(b)
    <3>1. Confirmed(tx)'
      BY <2>2, <2>4 DEF Confirmed, BlockTxids
    <3> QED BY <3>1 DEF Kept, Held
  <2>5. CASE tx.txid \in {spends[op] : op \in BlockSpends(b) \cap DOMAIN spends}
    <3>1. PICK op \in BlockSpends(b) \cap DOMAIN spends : spends[op] = tx.txid
      BY <2>5
    <3>2. op \in Spent(tx)
      <4>1. PICK u \in pool : op \in Spent(u)
        BY <1>0, <3>1 DEF IndexExact
      <4>2. u.txid = tx.txid
        BY <1>0, <3>1, <4>1 DEF IndexExact
      <4> QED BY <1>0, <1>6, <4>1, <4>2 DEF IndexExact
    <3>3. PICK k \in DOMAIN BLOCK[b].txs : op \in Spent(BLOCK[b].txs[k])
      BY <3>1 DEF BlockSpends
    <3>4. op \notin DOMAIN utxos'
      <4>1. ChainInv' => NothingSpentHeld'
        BY SpentIsGone, PTL
      <4> QED BY <1>1, <2>2, <3>3, <4>1 DEF NothingSpentHeld
    <3>5. ~ValidNext(tx)'
      BY <3>2, <3>4 DEF ValidNext, TxOk, InputOk, Spent
    <3> QED BY <3>5 DEF Kept
  <2>6. CASE ~(~IsCoinbase(tx) /\ TxOk(tx, Len(active'), utxos'))
    <3>1. Height' + 1 = Len(active')
      BY <1>2 DEF Height
    <3>2. ~ValidNext(tx)'
      BY <2>6, <3>1 DEF ValidNext
    <3> QED BY <3>2 DEF Kept
  <2> QED BY <1>6, <2>3, <2>4, <2>5, <2>6 DEF Evicted
<1> QED BY <1>3, <1>4, <1>5, <1>6 DEF Held

\* The bridge takes a file away only for a transaction that is in the mempool
\* by now, the very one, or that pays too little.
LEMMA BridgeKeepsTx ==
  ASSUME NodeInv, BytesExact, NEW t \in Txs, Bridge(t), NEW tx, Held(tx)
  PROVE  Kept(tx)'
<1>0. Insert(t) /\ UNCHANGED <<active, utxos>> /\ mode = "run"
  BY DEF Bridge, chainVars
<1>1. pool \subseteq pool'
  BY <1>0 DEF Insert, poolVars
<1>2. Confirmed(tx) => Confirmed(tx)'
  BY <1>0 DEF Confirmed, BlockTxids
<1>3. CASE Confirmed(tx) \/ tx \in pool \/ tx \in files'
  BY <1>1, <1>2, <1>3 DEF Kept, Held
<1>4. CASE tx \in files \ files'
  <2>1. tx = t /\ ~KeepsFile(Verdict(t))
    BY <1>4 DEF Bridge
  <2>2. ValidNext(tx)' = ValidNext(tx) /\ (Fee(tx, utxos) < Need(tx))' = (Fee(tx, utxos) < Need(tx))
    BY <1>0 DEF ValidNext, Height, Fee, InTotal, OutTotal, Need
  <2>3. CASE Verdict(t) = "ok"
    BY <1>0, <2>1, <2>3 DEF Insert, Kept, Held
  <2>4. CASE Verdict(t) = "low_fee"
    <3>1. Fee(t, utxos) < Need(t)
      BY <2>4 DEF Verdict
    <3> QED BY <2>1, <2>2, <3>1 DEF Kept
  <2>5. CASE Verdict(t) = "duplicate"
    <3>1. PICK u \in pool : u.txid = t.txid
      BY <2>5 DEF Verdict, PoolTxids
    <3>2. u \in Txs /\ ValidNext(u)
      BY <1>0, <3>1 DEF NodeInv, PoolInv, PoolMinable, BytesExact
    <3>3. CASE ValidNext(t)
      <4>1. t = u
        BY <3>1, <3>2, <3>3, SameTxid DEF ValidNext
      <4> QED BY <1>1, <2>1, <3>1, <4>1 DEF Kept, Held
    <3>4. CASE ~ValidNext(t)
      BY <2>1, <2>2, <3>4 DEF Kept
    <3> QED BY <3>3, <3>4
  <2> QED BY <2>1, <2>3, <2>4, <2>5 DEF Verdict, KeepsFile
<1> QED BY <1>3, <1>4 DEF Held

\* A running node loses a queued transaction only to a reorganisation: while the
\* chain just grows, whatever the bridge is answered and whatever block arrives,
\* a transaction that sits in a file, in the mempool or on the chain stays in one
\* of them for as long as it can be mined and pays its fee.
THEOREM BridgeNeverLoses == NodeSpec => BridgeKeepsQueued
<1>1. NodeInv /\ BytesExact /\ [NodeNext]_nodeVars =>
        (mode = "run" /\ mode' = "run" /\ active = SubSeq(active', 1, Len(active)) =>
            \A tx \in queued : Held(tx) => Kept(tx)')
  <2> SUFFICES ASSUME NodeInv, BytesExact, [NodeNext]_nodeVars, mode = "run", mode' = "run",
                      active = SubSeq(active', 1, Len(active)), NEW tx \in queued, Held(tx)
               PROVE  Kept(tx)'
    OBVIOUS
  <2>0. /\ setup.foreign \subseteq Blocks /\ mined \subseteq Blocks
        /\ setup.queueable \subseteq Txs
    BY DEF NodeInv, NodeTypes, Worlds
  <2>1. ASSUME NEW b \in Blocks, ReceiveBlock(b, TRUE) \/ Found(b) PROVE Kept(tx)'
    BY <2>1, BlockKeepsQueued DEF ReceiveBlock, Found
  <2>2. ASSUME NEW t \in setup.queueable, Bridge(t) PROVE Kept(tx)'
    BY <2>0, <2>2, BridgeKeepsTx
  <2>3. ASSUME UNCHANGED active, files \subseteq files', pool \subseteq pool' PROVE Kept(tx)'
    BY <2>3 DEF Kept, Held, Confirmed, BlockTxids
  <2>4. ASSUME NEW t, SubmitTx(t) \/ QueueTx(t) PROVE Kept(tx)'
    BY <2>3, <2>4 DEF SubmitTx, QueueTx, Insert, poolVars, chainVars
  <2>5. ASSUME StartJob \/ GiveUp \/ UNCHANGED nodeVars PROVE Kept(tx)'
    BY <2>3, <2>5 DEF StartJob, GiveUp, nodeVars, poolVars, chainVars
  <2> QED BY <2>0, <2>1, <2>2, <2>4, <2>5
          DEF NodeNext, Start, LoadBlock, LoadDone, OfflineMine, OfflineExit, Crash
<1>2. NodeInit => BytesExact
  BY SizesEmpty, FS_EmptySet, NodeAssumption DEF NodeInit, BytesExact
<1> QED BY <1>1, <1>2, NodeInitInv, NodeNextInv, NextKeepsBytes, PTL DEF NodeSpec, BridgeKeepsQueued

-----------------------------------------------------------------------------
(***************************************************************************)
(* Headers, read off the block universe.                                   *)
(***************************************************************************)
\* The median that CHOOSE names exists: the least value that more than half of
\* the recent times do not exceed.
LEMMA MedianType ==
  ASSUME NEW times \in Seq(Nat), times # <<>>
  PROVE  MedianOf(times) \in Nat
<1>1. PICK len \in Nat \ {0} : len = Len(times) /\ \A i \in 1..len : times[i] \in Nat
  <2>1. Len(times) \in Nat \ {0} /\ \A i \in 1..Len(times) : times[i] \in Nat
    OBVIOUS
  <2> QED BY <2>1
<1>2. PICK n \in Nat \ {0} : n = IF Len(times) < MTP_WINDOW THEN Len(times) ELSE MTP_WINDOW
  BY <1>1, BlocksAssumption
<1>3. PICK D : D = (len - n + 1)..len
  OBVIOUS
<1>4. n <= len /\ D \subseteq 1..len /\ IsFiniteSet(D) /\ Cardinality(D) = n
  <2>1. n <= len
    BY <1>1, <1>2, BlocksAssumption
  <2>2. IsFiniteSet(D) /\ Cardinality(D) = n
    <3>1. len - n + 1 \in Int /\ len \in Int /\ len >= len - n + 1 /\ len - (len - n + 1) + 1 = n
      BY <1>1, <1>2
    <3> QED BY <1>3, <3>1, FS_Interval
  <2> QED BY <1>1, <1>2, <1>3, <2>1, <2>2
<1>5. PICK half \in Nat : half = n \div 2 /\ half < n
  BY <1>2
<1> DEFINE UpTo(v) == {i \in D : times[i] <= v}
           T == {v \in Nat : Cardinality(UpTo(v)) > half}
           Good(x) == /\ Cardinality({i \in D : times[i] < x}) <= half
                      /\ Cardinality({i \in D : times[i] <= x}) > half
<1>6. \A A \in SUBSET D : IsFiniteSet(A) /\ Cardinality(A) \in Nat
  BY <1>4, FS_Subset, FS_CardinalityType
<1>7. \E M \in Nat : \A i \in 1..len : times[i] <= M
  <2> DEFINE S == {k \in Nat : k <= len => \E M \in Nat : \A i \in 1..k : times[i] <= M}
  <2>1. 0 \in S
    <3>1. \A i \in 1..0 : times[i] <= 0
      OBVIOUS
    <3> QED BY <3>1
  <2>2. ASSUME NEW k \in Nat, k \in S PROVE k + 1 \in S
    <3> SUFFICES ASSUME k + 1 <= len PROVE \E M \in Nat : \A i \in 1..(k + 1) : times[i] <= M
      OBVIOUS
    <3>1. PICK M \in Nat : \A i \in 1..k : times[i] <= M
      BY <1>1, <2>2
    <3>2. times[k + 1] \in Nat
      BY <1>1
    <3>3. PICK y \in Nat : y = times[k + 1]
      BY <3>2
    <3>4. \A i \in 1..(k + 1) : i \in 1..k \/ i = k + 1
      OBVIOUS
    <3>5. \A i \in 1..k : times[i] \in Nat
      BY <1>1
    <3>6. \A i \in 1..(k + 1) : times[i] <= M + y
      BY <3>1, <3>3, <3>4, <3>5
    <3>7. M + y \in Nat
      OBVIOUS
    <3> QED BY ONLY <3>6, <3>7
  <2>3. \A k \in Nat : k \in S
    <3> HIDE DEF S
    <3> QED BY <2>1, <2>2, NatSetInduction
  <2>4. len \in S
    BY <2>3
  <2> QED BY <2>4
<1>8. T # {} /\ T \subseteq Nat
  <2>1. PICK M \in Nat : \A i \in 1..len : times[i] <= M
    BY <1>7
  <2>2. UpTo(M) = D
    BY <1>4, <2>1
  <2>3. M \in T
    BY <1>4, <1>5, <2>2
  <2> QED BY <2>3
<1>9. PICK x \in T : \A k \in T : x <= k
  <2> HIDE DEF T
  <2> QED BY <1>8, LeastNat
<1>10. x \in Nat /\ Cardinality(UpTo(x)) > half
  BY <1>9
<1>11. {i \in D : times[i] < x} = {} \/ (x > 0 /\ {i \in D : times[i] < x} = UpTo(x - 1))
  <2>1. CASE x = 0
    <3>1. \A i \in D : times[i] \in Nat
      BY ONLY <1>1, <1>4
    <3>2. \A i \in D : ~(times[i] < x)
      BY ONLY <2>1, <3>1
    <3> QED BY <3>2
  <2>2. CASE x > 0
    <3>1. \A i \in D : times[i] < x <=> times[i] <= x - 1
      BY <1>1, <1>4, <1>10
    <3> QED BY <2>2, <3>1
  <2> QED BY <1>10, <2>1, <2>2
<1>12. x > 0 => Cardinality(UpTo(x - 1)) <= half
  <2> SUFFICES ASSUME x > 0, ~(Cardinality(UpTo(x - 1)) <= half) PROVE FALSE
    OBVIOUS
  <2>1. Cardinality(UpTo(x - 1)) \in Nat
    BY <1>6
  <2>2. x - 1 \in T
    <3>1. x - 1 \in Nat /\ Cardinality(UpTo(x - 1)) > half
      BY ONLY <1>10, <2>1, x > 0, ~(Cardinality(UpTo(x - 1)) <= half), half \in Nat
    <3> QED BY <3>1
  <2>3. x <= x - 1
    BY <1>9, <2>2
  <2> QED BY <1>10, <2>3
<1>13. Good(x)
  <2>1. Cardinality({i \in D : times[i] < x}) <= half
    <3>1. CASE {i \in D : times[i] < x} = {}
      <4>1. Cardinality({i \in D : times[i] < x}) = 0
        BY ONLY <3>1, FS_EmptySet
      <4> QED BY <4>1, <1>5
    <3>2. CASE x > 0 /\ {i \in D : times[i] < x} = UpTo(x - 1)
      BY <1>12, <3>2
    <3> QED BY <1>11, <3>1, <3>2
  <2> QED BY <1>10, <2>1
<1>14. x \in {times[i] : i \in D}
  <2> SUFFICES ASSUME x \notin {times[i] : i \in D} PROVE FALSE
    OBVIOUS
  <2>1. UpTo(x) = {i \in D : times[i] < x}
    <3>1. \A i \in D : times[i] \in Nat /\ times[i] # x
      BY <1>1, <1>4
    <3> QED BY <1>10, <3>1
  <2>2. /\ Cardinality(UpTo(x)) \in Nat /\ Cardinality(UpTo(x)) > half
        /\ Cardinality(UpTo(x)) <= half
    BY <1>6, <1>10, <1>13, <2>1
  <2> HIDE DEF UpTo
  <2> QED BY ONLY <2>2, half \in Nat
<1>15. MedianOf(times) = CHOOSE y \in {times[i] : i \in D} : Good(y)
  BY <1>1, <1>2, <1>3, <1>5 DEF MedianOf
<1>16. (CHOOSE y \in {times[i] : i \in D} : Good(y)) \in {times[i] : i \in D}
  <2> HIDE DEF Good
  <2> QED BY <1>13, <1>14
<1> QED BY <1>1, <1>4, <1>15, <1>16

\* The times along the branch of x.
TreeTimes(x) == [i \in DOMAIN TreePath[x] |-> BLOCK[TreePath[x][i]].time]

\* What add_block demands of a header depends on its ancestors only.
TreeHeaderOk(b) ==
    LET p == BLOCK[b].prev
    IN  /\ BLOCK[b].bits = NEXT_BITS(BLOCK[p].time - BLOCK[Genesis].time, Len(TreePath[p]) - 1)
        /\ BLOCK[b].time > MedianOf(TreeTimes(p))
        /\ BLOCK[b].size <= MAX_BLOCK_SIZE
        /\ BLOCK[b].pow

\* ChainState::new takes the genesis entry's time from the genesis block.
GenesisTime == meta[Genesis].time = BLOCK[Genesis].time

\* The walk from a known block down to genesis is its branch, read backwards.
LEMMA KnownPath ==
  ASSUME ChainInv, NEW x \in all
  PROVE  /\ Walk(meta, x) = TreePath[x]
         /\ TreePath[x] \in Seq(all) /\ TreePath[x] \in Seq(Blocks)
         /\ Len(TreePath[x]) = meta[x].height + 1 /\ meta[x].height \in 0..MAX_HEIGHT
         /\ TreePath[x] # <<>> /\ TreePath[x][Len(TreePath[x])] = x
<1>1. IsTree(meta, all) /\ all \subseteq Blocks /\ \A y \in all : meta[y] \in Metas
  BY DEF ChainInv, TypeOK, KnownTree, IsTree
<1>2. \A y \in all : meta[y].height \in Nat /\ meta[y].height \in 0..MAX_HEIGHT
  BY <1>1, LedgerAssumption DEF Metas
<1>3. PICK c : c = Walk(meta, x)
  OBVIOUS
<1>4. /\ Walk(meta, x) \in Seq(all) /\ Len(Walk(meta, x)) = meta[x].height + 1
      /\ Walk(meta, x)[Len(Walk(meta, x))] = x /\ Walk(meta, x)[1] = Genesis
      /\ \A i \in 1..Len(Walk(meta, x)) : i > 1 => BLOCK[Walk(meta, x)[i]].prev = Walk(meta, x)[i - 1]
  BY <1>1, <1>2, WalkIsPath
<1>5. /\ c \in Seq(all) /\ Len(c) = meta[x].height + 1 /\ c[Len(c)] = x /\ c[1] = Genesis
      /\ \A i \in 1..Len(c) : i > 1 => BLOCK[c[i]].prev = c[i - 1]
  BY <1>3, <1>4
<1>6. c \in Seq(Blocks) /\ Len(c) \in Nat \ {0}
  BY <1>1, <1>2, <1>5
<1>7. TreePath[x] = c
  BY <1>5, <1>6, PathIsTreePath
<1> QED BY <1>2, <1>3, <1>5, <1>6, <1>7

\* median_time_past of a known block is a function of its branch.
LEMMA MedianOfTree ==
  ASSUME ChainInv, GenesisTime, NEW p \in all
  PROVE  MedianTimePast(p) = MedianOf(TreeTimes(p))
<1>1. Walk(meta, p) = TreePath[p] /\ TreePath[p] \in Seq(all)
  BY KnownPath
<1>2. \A y \in all : meta[y].time = BLOCK[y].time
  BY DEF ChainInv, KnownTree, IsTree, GenesisTime
<1>3. PICK w : w = TreePath[p]
  OBVIOUS
<1>4. \A i \in DOMAIN w : w[i] \in all
  BY <1>1, <1>3
<1>5. [i \in DOMAIN w |-> meta[w[i]].time] = [i \in DOMAIN w |-> BLOCK[w[i]].time]
  BY ONLY <1>2, <1>4
<1> QED BY <1>1, <1>3, <1>5 DEF MedianTimePast, TreeTimes

\* So is the verdict of add_block on a header whose parent is known.
LEMMA HeaderOfTree ==
  ASSUME ChainInv, GenesisTime, NEW b, BLOCK[b].prev \in all
  PROVE  HeaderOk(b, TRUE) <=> TreeHeaderOk(b)
<1>1. PICK p \in all : p = BLOCK[b].prev
  OBVIOUS
<1>2. Len(TreePath[p]) - 1 = meta[p].height
  <2>1. Len(TreePath[p]) = meta[p].height + 1 /\ meta[p].height \in 0..MAX_HEIGHT
    BY KnownPath
  <2> QED BY ONLY <2>1, LedgerAssumption
<1>3. meta[p].time = BLOCK[p].time
  BY DEF ChainInv, KnownTree, IsTree, GenesisTime
<1>4. MedianTimePast(p) = MedianOf(TreeTimes(p))
  BY MedianOfTree
<1>5. ExpectedBits(p) = NEXT_BITS(BLOCK[p].time - BLOCK[Genesis].time, Len(TreePath[p]) - 1)
  BY <1>2, <1>3 DEF ExpectedBits, GenesisTime
<1> QED BY <1>1, <1>4, <1>5 DEF HeaderOk, TreeHeaderOk

\* The times along a branch are a list of naturals, never empty.
LEMMA TreeTimesType ==
  ASSUME ChainInv, NEW x \in all
  PROVE  TreeTimes(x) \in Seq(Nat) /\ TreeTimes(x) # <<>>
<1>0. TreePath[x] \in Seq(Blocks) /\ TreePath[x] # <<>>
  BY KnownPath
<1>1. PICK n \in Nat \ {0}, w \in Seq(Blocks) : w = TreePath[x] /\ n = Len(w)
  BY <1>0
<1>2. DOMAIN w = 1..n /\ \A i \in 1..n : w[i] \in Blocks
  BY <1>1
<1>3. TreeTimes(x) = [i \in 1..n |-> BLOCK[w[i]].time]
  BY <1>1, <1>2 DEF TreeTimes
<1>4. \A i \in 1..n : BLOCK[w[i]].time \in Nat
  BY <1>2, BlocksAssumption
<1>5. [i \in 1..n |-> BLOCK[w[i]].time] \in [1..n -> Nat]
  BY ONLY <1>4
<1>6. TreeTimes(x) \in Seq(Nat) /\ Len(TreeTimes(x)) = n
  BY ONLY <1>3, <1>5, n \in Nat \ {0}
<1> QED BY ONLY <1>6, n \in Nat \ {0}

-----------------------------------------------------------------------------
\* The branch of a block continues the branch of its parent.
LEMMA PathOfChild ==
  ASSUME NEW b \in Blocks, BLOCK[b].prev \in Blocks
  PROVE  TreePath[b] = Append(TreePath[BLOCK[b].prev], b)
BY TreePathAssumption

\* The active chain is the branch of its tip.
LEMMA TipPath ==
  ASSUME ChainInv
  PROVE  /\ TreePath[Tip] = active /\ Tip \in all /\ Tip \in Blocks
         /\ active \in Seq(Blocks) /\ Len(active) = Height + 1 /\ Height \in 0..MAX_HEIGHT
         /\ meta[Tip].height = Height
<1>1. PICK n \in Nat \ {0} : n = Len(active) /\ n <= MAX_HEIGHT + 1
  BY LedgerAssumption DEF ChainInv, TypeOK
<1>2. /\ active \in Seq(Blocks) /\ active[1] = Genesis
      /\ \A i \in 1..n : i > 1 => BLOCK[active[i]].prev = active[i - 1]
  BY <1>1 DEF ChainInv, TypeOK, ActiveIsPath
<1>3. active[n] \in all /\ active[n] \in Blocks /\ meta[active[n]].height = n - 1
  BY <1>1, <1>2 DEF ChainInv, TypeOK, ActiveIsPath
<1>4. TreePath[active[Len(active)]] = active
  BY <1>1, <1>2, PathIsTreePath
<1> QED BY <1>1, <1>2, <1>3, <1>4, LedgerAssumption DEF Tip, Height

\* A block whose header is good and whose branch replays is not rejected,
\* and becomes the tip if it extends the tip.
LEMMA ValidAccepted ==
  ASSUME ChainInv, GenesisTime, NEW b \in Blocks \ all, BLOCK[b].prev \in all,
         TreeHeaderOk(b), ApplyChain(TreePath[b]).ok, AddBlock(b, TRUE)
  PROVE  /\ ret'.res \in {"active", "side"}
         /\ all' = all \cup {b}
         /\ BLOCK[b].prev = Tip => ret'.res = "active" /\ active' = Append(active, b)
<1>1. HeaderOk(b, TRUE)
  BY HeaderOfTree
<1>2. DOMAIN meta = all
  BY DEF ChainInv, KnownTree, IsTree
<1>3. CASE KeepSideBlock(b, TRUE)
  <2>1. ret'.res = "side" /\ all' = all \cup {b}
    BY <1>3 DEF KeepSideBlock, Returns, InsertBlock
  <2>2. BLOCK[b].prev # Tip
    <3> SUFFICES ASSUME BLOCK[b].prev = Tip PROVE FALSE
      OBVIOUS
    <3>1. TipWork \in Nat /\ TipWork = meta[Tip].cum_work
      BY TipIsKnown
    <3>2. WORK(BLOCK[b].bits) \in Nat \ {0}
      BY BlocksAssumption
    <3>3. NewMeta(b).cum_work = TipWork + WORK(BLOCK[b].bits)
      BY <3>1 DEF NewMeta
    <3>4. Outweighs(b)
      BY <3>1, <3>2, <3>3 DEF Outweighs
    <3> QED BY <1>3, <3>4 DEF KeepSideBlock
  <2> QED BY <2>1, <2>2
<1>4. CASE ExtendTip(b, TRUE)
  <2>1. ret'.res # "invalid"
    BY <1>4, ExtendTipRejects
  <2>2. BLOCK[b].prev = Tip /\ Inserts(b, TRUE)
    BY <1>4 DEF ExtendTip, OnTip
  <2>3. ~(SupplyAfter(ValidateOnTip(b)) > MAX_U64)
    <3>1. TreePath[b] = Append(active, b)
      BY <2>2, PathOfChild, TipPath
    <3>2. PICK acc : acc = ApplyChain(active)
      OBVIOUS
    <3>3. acc = [ok |-> TRUE, utxos |-> utxos, supply |-> supply]
      BY <3>2 DEF ChainInv, LedgerIsReplay
    <3>4. ReplayStep(acc, b, Len(active)).ok
      BY <3>1, <3>2, ReplayAppend, TipPath
    <3>5. Len(active) = NewMeta(b).height
      BY <2>2, TipPath DEF NewMeta
    <3>6. acc.ok /\ acc.utxos = utxos /\ acc.supply = supply
      BY <3>3
    <3>7. acc.supply + ValidateBlockTxs(BLOCK[b].txs, Len(active), acc.utxos).minted <= MAX_U64
      <4> SUFFICES ASSUME ~(acc.supply + ValidateBlockTxs(BLOCK[b].txs, Len(active), acc.utxos).minted <= MAX_U64)
                   PROVE  FALSE
        OBVIOUS
      <4>1. /\ ReplayStep(acc, b, Len(active)) = [acc EXCEPT !.ok = FALSE]
            /\ acc = [ok |-> acc.ok, utxos |-> acc.utxos, supply |-> acc.supply]
        BY <3>3 DEF ReplayStep
      <4>2. ReplayStep(acc, b, Len(active)) = [ok |-> FALSE, utxos |-> acc.utxos, supply |-> acc.supply]
        BY <4>1
      <4> QED BY <3>4, <4>2
    <3>8. supply + ValidateOnTip(b).minted <= MAX_U64
      BY <3>5, <3>6, <3>7 DEF ValidateOnTip
    <3>9. ValidateOnTip(b).minted \in Nat /\ supply \in Nat
      <4>1. IsUtxoMap(utxos) /\ supply \in 0..MAX_U64
        BY DEF ChainInv, TypeOK
      <4>2. BLOCK[b].txs \in Seq(Txs)
        BY BlocksAssumption
      <4>3. NewMeta(b).height \in 0..MAX_HEIGHT
        BY <2>2, TipPath, LedgerAssumption DEF Inserts, NewMeta
      <4> QED BY <4>1, <4>2, <4>3, ValidateBlockTxsType, LedgerAssumption DEF ValidateOnTip
    <3> QED BY <3>8, <3>9, LedgerAssumption DEF SupplyAfter
  <2>4. \/ Returns(b, TRUE, "invalid")
        \/ InsertBlock(b) /\ active' = Append(active, b) /\ Returns(b, TRUE, "active")
    BY <1>4, <2>3 DEF ExtendTip
  <2> QED BY <2>1, <2>4 DEF Returns, InsertBlock
<1>5. CASE Reorg(b, TRUE)
  <2>1. ret'.res # "invalid"
    BY <1>5, ReorgRejects
  <2>2. Returns(b, TRUE, "invalid") \/ (Returns(b, TRUE, "active") /\ InsertBlock(b))
    BY <1>5 DEF Reorg
  <2> QED BY <1>5, <2>1, <2>2 DEF Returns, InsertBlock, Reorg, OnTip
<1> QED BY <1>1, <1>2, <1>3, <1>4, <1>5
        DEF AddBlock, RejectDuplicate, RejectUnknownParent, RejectHeader

-----------------------------------------------------------------------------
(***************************************************************************)
(* Transactions that are each valid at the tip and share no input can be   *)
(* applied one after the other.                                            *)
(***************************************************************************)
\* A transaction sees only the outputs it spends.
LEMMA ValidWhereAgreeing ==
  ASSUME NEW tx \in Txs, NEW h, NEW u, NEW v, TxOk(tx, h, u),
         \A op \in Spent(tx) : op \in DOMAIN v /\ v[op] = u[op]
  PROVE  TxOk(tx, h, v) /\ Fee(tx, v) = Fee(tx, u)
<1>1. \A i \in DOMAIN tx.inputs : tx.inputs[i] \in DOMAIN v /\ v[tx.inputs[i]] = u[tx.inputs[i]]
  BY DEF Spent
<1>2. InTotal(tx, v) = InTotal(tx, u)
  <2>1. [i \in DOMAIN tx.inputs |-> v[tx.inputs[i]].output.amount]
          = [i \in DOMAIN tx.inputs |-> u[tx.inputs[i]].output.amount]
    BY <1>1
  <2> QED BY <2>1 DEF InTotal
<1>3. \A i \in DOMAIN tx.inputs : InputOk(tx, i, h, u) => InputOk(tx, i, h, v)
  BY <1>1 DEF InputOk
<1> QED BY <1>2, <1>3 DEF TxOk, Fee

\* The transactions of block h of chain c: none but the first is a coinbase,
\* and each is valid on the UTXO map u before the block and shares no input.
Batch(c, h, u, txs) ==
    /\ Len(txs) \in Nat \ {0} /\ \A i \in 1..Len(txs) : txs[i] \in Txs
    /\ txs = BLOCK[c[h + 1]].txs
    /\ Hist(At(c, Done(c, h)), u) /\ UtxoTotal(u) <= MAX_U64
    /\ \A i \in 2..Len(txs) : ~IsCoinbase(txs[i]) /\ TxOk(txs[i], h, u)
    /\ \A i, j \in 2..Len(txs) : i # j => Spent(txs[i]) \cap Spent(txs[j]) = {}

\* The fees they pay, all priced on that map.
FeesOf(txs, u) == [j \in 1..(Len(txs) - 1) |-> Fee(txs[j + 1], u)]

\* After m of them.
Applied(c, h, u, txs, m, acc) ==
    /\ acc.ok /\ SpendAcc(acc) /\ MidBlock(c, h, u, m, acc)
    /\ acc.fees = Sums(FeesOf(txs, u))[m]
    /\ \A op \in DOMAIN u : (\A j \in 2..(m + 1) : op \notin Spent(txs[j])) =>
          op \in DOMAIN acc.utxos /\ acc.utxos[op] = u[op]

\* What a transaction pays, with the fees before it, was unspent before the
\* block: the checked addition of fees cannot overflow.
LEMMA FeeFits ==
  ASSUME NEW c, NEW h \in Nat, NEW u, NEW m \in Nat, NEW acc, acc.ok, MidBlock(c, h, u, m, acc),
         NEW tx \in Txs, tx = BLOCK[c[h + 1]].txs[m + 2], TxOk(tx, h, acc.utxos)
  PROVE  /\ acc.fees \in Nat /\ Fee(tx, acc.utxos) \in Nat /\ UtxoTotal(u) \in Nat
         /\ acc.fees + Fee(tx, acc.utxos) <= UtxoTotal(u)
<1>1. PICK q, A, B : q = <<h + 1, m + 2>> /\ A = DoneTo(c, h, m + 1) /\ B = DoneTo(c, h, m + 2)
  OBVIOUS
<1>2. B = A \cup {q} /\ q \notin A
  <2>1. m + 2 \notin 2..(m + 1)
    OBVIOUS
  <2>2. B = A \cup {q}
    <3>1. \A k \in Nat : DoneTo(c, h, k + 2) = DoneTo(c, h, k + 1) \cup {<<h + 1, k + 2>>}
      BY DoneFacts
    <3> QED BY <1>1, <3>1
  <2>3. q \notin A
    BY ONLY <1>1, <2>1, DoneFacts, h \in Nat, m \in Nat
  <2> QED BY <2>2, <2>3
<1>3. q \in Places
  BY <1>1 DEF Places
<1>4. Extends(At(c, B), At(c, A), q, tx)
  BY <1>1, <1>2, <1>3, AtExtends
<1>5. Hist(At(c, A), acc.utxos) /\ acc.fees \in Nat
      /\ UtxoTotal(acc.utxos) + acc.fees = UtxoTotal(u)
  BY <1>1 DEF MidBlock
<1>6. PICK k, F, G, w : k = m + 2 /\ F = At(c, A) /\ G = At(c, B) /\ w = acc.utxos
  OBVIOUS
<1>t. PICK t \in Txs : t = tx
  OBVIOUS
<1>7. k \in Nat /\ k > 1
  BY <1>6
<1>8. TxOk(t, h, w) /\ Hist(F, w) /\ Extends(G, F, <<h + 1, k>>, t)
  BY <1>1, <1>4, <1>5, <1>6, <1>t
<1>9. /\ Hist(G, ApplyTx(t, h, FALSE, w))
      /\ UtxoTotal(ApplyTx(t, h, FALSE, w)) + Fee(t, w) = UtxoTotal(w)
      /\ UtxoTotal(w) \in Nat /\ UtxoTotal(ApplyTx(t, h, FALSE, w)) \in Nat
      /\ Fee(t, w) \in Nat
  BY ONLY <1>7, <1>8, h \in Nat, SpenderKeepsHist
<1>10. PICK a \in Nat, b \in Nat, f \in Nat, g \in Nat :
          /\ a = UtxoTotal(w) /\ b = UtxoTotal(ApplyTx(t, h, FALSE, w))
          /\ f = acc.fees /\ g = Fee(t, w)
  BY <1>5, <1>9
<1>11. b + g = a /\ a + f = UtxoTotal(u)
  BY <1>5, <1>6, <1>9, <1>10
<1>12. a + f \in Nat /\ f + g <= a + f
  <2>1. b + g = a
    BY <1>11
  <2> QED BY ONLY <2>1, a \in Nat, b \in Nat, f \in Nat, g \in Nat
<1> QED BY <1>6, <1>t, <1>10, <1>11, <1>12

\* One more of them applies.
LEMMA NextApplies ==
  ASSUME NEW c, NEW h \in Nat, NEW u, NEW txs, Batch(c, h, u, txs),
         NEW m \in Nat, m + 2 <= Len(txs), NEW acc, Applied(c, h, u, txs, m, acc)
  PROVE  Applied(c, h, u, txs, m + 1, SpendStep(acc, txs[m + 2], h))
<1>1. PICK len \in Nat \ {0} : len = Len(txs)
  BY DEF Batch
<1>2. PICK tx \in Txs : tx = txs[m + 2]
  BY <1>1 DEF Batch
<1>3. m + 2 \in 2..len /\ \A j \in 2..(m + 1) : j \in 2..len /\ j # m + 2
  BY <1>1
<1>4. ~IsCoinbase(tx) /\ TxOk(tx, h, u) /\ \A j \in 2..(m + 1) : Spent(txs[j]) \cap Spent(tx) = {}
  BY <1>1, <1>2, <1>3 DEF Batch
<1>5. Spent(tx) \subseteq DOMAIN u /\ tx.inputs # <<>>
  BY <1>4 DEF TxOk, InputOk, Spent
<1>6. TxOk(tx, h, acc.utxos) /\ Fee(tx, acc.utxos) = Fee(tx, u)
  <2>1. \A op \in Spent(tx) : op \in DOMAIN acc.utxos /\ acc.utxos[op] = u[op]
    BY <1>4, <1>5 DEF Applied
  <2> QED BY <1>4, <2>1, ValidWhereAgreeing
<1>7. tx = BLOCK[c[h + 1]].txs[m + 2]
  BY <1>2 DEF Batch
<1>8. /\ acc.fees \in Nat /\ Fee(tx, acc.utxos) \in Nat
      /\ acc.fees + Fee(tx, acc.utxos) <= MAX_U64
  <2>1. /\ acc.fees \in Nat /\ Fee(tx, acc.utxos) \in Nat /\ UtxoTotal(u) \in Nat
        /\ acc.fees + Fee(tx, acc.utxos) <= UtxoTotal(u)
    BY <1>6, <1>7, FeeFits DEF Applied
  <2>2. UtxoTotal(u) <= MAX_U64
    BY DEF Batch
  <2> QED BY ONLY <2>1, <2>2, LedgerAssumption
<1>9. PICK nu, nf : nu = ApplyTx(tx, h, FALSE, acc.utxos) /\ nf = acc.fees + Fee(tx, acc.utxos)
  OBVIOUS
<1>10. SpendStep(acc, tx, h) = [ok |-> TRUE, utxos |-> nu, fees |-> nf]
  BY <1>4, <1>6, <1>8, <1>9 DEF SpendStep, Applied
<1>11. SpendAcc(SpendStep(acc, tx, h))
  BY SpendStepType DEF Applied
<1>12. MidBlock(c, h, u, m + 1, SpendStep(acc, tx, h))
  BY <1>7, SpendKeepsMidBlock DEF Applied
<1>13. nf = Sums(FeesOf(txs, u))[m + 1]
  <2>1. PICK s : s = FeesOf(txs, u)
    OBVIOUS
  <2>2. s = [j \in 1..(len - 1) |-> Fee(txs[j + 1], u)]
    BY <1>1, <2>1 DEF FeesOf
  <2>3. Len(s) = len - 1 /\ Len(s) \in Nat
    BY ONLY <2>2, len \in Nat \ {0}
  <2>4. m + 1 \in 1..Len(s) /\ (m + 1) - 1 = m
    BY <1>1, <2>3
  <2>5. Sums(s)[m + 1] = Sums(s)[m] + s[m + 1]
    <3>1. \A i \in 1..Len(s) : Sums(s)[i] = Sums(s)[i - 1] + s[i]
      BY <2>3, SumsStep
    <3> QED BY ONLY <2>4, <3>1
  <2>6. s[m + 1] = Fee(tx, u)
    <3>1. m + 1 \in 1..(len - 1) /\ (m + 1) + 1 = m + 2
      BY <1>1
    <3> QED BY ONLY <1>2, <2>2, <3>1
  <2> QED BY <1>6, <1>9, <2>1, <2>5, <2>6 DEF Applied
<1>14. ASSUME NEW op \in DOMAIN u, \A j \in 2..((m + 1) + 1) : op \notin Spent(txs[j])
       PROVE  op \in DOMAIN nu /\ nu[op] = u[op]
  <2>1. op \notin Spent(tx) /\ \A j \in 2..(m + 1) : op \notin Spent(txs[j])
    <3>1. m + 2 \in 2..((m + 1) + 1) /\ \A j \in 2..(m + 1) : j \in 2..((m + 1) + 1)
      OBVIOUS
    <3> QED BY <1>2, <1>14, <3>1
  <2>2. op \in DOMAIN acc.utxos /\ acc.utxos[op] = u[op]
    BY <2>1 DEF Applied
  <2>3. op \notin Created(tx)
    <3>1. PICK F : F = At(c, Done(c, h))
      OBVIOUS
    <3>2. Hist(F, u)
      BY <3>1 DEF Batch
    <3>3. \A p \in DOMAIN F : F[p].txid # tx.txid
      BY <1>5, <3>2, SpenderIsFresh
    <3>4. PlacesOk(F) /\ DOMAIN u \subseteq Outs(F)
      BY <3>2 DEF Hist, LeftUnspent
    <3> QED BY <3>3, <3>4, CreatedApart
  <2> QED BY <1>9, <2>1, <2>2, <2>3 DEF ApplyTx
<1>15. PICK r : r = SpendStep(acc, tx, h)
  OBVIOUS
<1>16. r.ok /\ r.utxos = nu /\ r.fees = nf
  BY <1>10, <1>15
<1>17. Applied(c, h, u, txs, m + 1, r)
  BY <1>11, <1>12, <1>13, <1>14, <1>15, <1>16 DEF Applied
<1> QED BY <1>2, <1>15, <1>17

\* None of the batch fails, and its fees add up.
LEMMA BatchApplies ==
  ASSUME NEW c, NEW h \in Nat, NEW u, NEW txs, Batch(c, h, u, txs)
  PROVE  /\ SpendTxs(txs, h, u).ok
         /\ SpendTxs(txs, h, u).fees = Total(FeesOf(txs, u))
         /\ SpendTxs(txs, h, u).fees \in Nat /\ SpendTxs(txs, h, u).fees <= UtxoTotal(u)
         /\ UtxoTotal(u) \in Nat
<1>1. PICK len \in Nat \ {0} : len = Len(txs)
  BY DEF Batch
<1>2. PICK run : run = SpendRun(txs, h, u)
  OBVIOUS
<1>3. /\ run[1] = [ok |-> TRUE, utxos |-> u, fees |-> 0]
      /\ \A m \in Nat : m + 2 \in 1..len => run[m + 2] = SpendStep(run[m + 1], txs[m + 2], h)
  <2> DEFINE Base == [ok |-> TRUE, utxos |-> u, fees |-> 0]
  <2>1. run = [i \in 1..len |-> IF i = 1 THEN Base ELSE SpendStep(run[i - 1], txs[i], h)]
    <3>1. Len(txs) \in Nat \ {0}
      BY <1>1
    <3>2. SpendRun(txs, h, u) =
             [i \in 1..Len(txs) |-> IF i = 1 THEN Base ELSE SpendStep(SpendRun(txs, h, u)[i - 1], txs[i], h)]
      BY ONLY <3>1, SpendRunDef
    <3> HIDE DEF Base
    <3> QED BY ONLY <1>1, <1>2, <3>2
  <2> HIDE DEF Base
  <2>2. run[1] = Base
    <3>1. 1 \in 1..len
      OBVIOUS
    <3> QED BY ONLY <2>1, <3>1
  <2>3. ASSUME NEW m \in Nat, m + 2 \in 1..len PROVE run[m + 2] = SpendStep(run[m + 1], txs[m + 2], h)
    <3>1. m + 2 # 1 /\ (m + 2) - 1 = m + 1
      OBVIOUS
    <3> QED BY ONLY <2>1, <2>3, <3>1
  <2> QED BY <2>2, <2>3 DEF Base
<1> DEFINE S == {m \in Nat : m + 1 <= len => Applied(c, h, u, txs, m, run[m + 1])}
<1>4. 0 \in S
  <2>1. Hist(At(c, Done(c, h)), u)
    BY DEF Batch
  <2>2. IsUtxoMap(u) /\ IsFiniteSet(DOMAIN u)
    BY <2>1 DEF Hist, LeftUnspent
  <2>3. UtxoTotal(u) \in Nat
    BY <2>2, AmountsType
  <2>4. PICK acc : acc = [ok |-> TRUE, utxos |-> u, fees |-> 0]
    OBVIOUS
  <2>5. acc.ok /\ acc.utxos = u /\ acc.fees = 0
    BY <2>4
  <2>6. SpendAcc(acc)
    BY <2>2, <2>4, SpendAccIntro
  <2>7. MidBlock(c, h, u, 0, acc)
    <3>1. DoneTo(c, h, 1) = Done(c, h) /\ 0 + 1 = 1
      BY DoneFacts
    <3>2. UtxoTotal(u) + 0 = UtxoTotal(u)
      BY <2>3
    <3> QED BY <2>1, <2>5, <3>1, <3>2 DEF MidBlock
  <2>8. Sums(FeesOf(txs, u))[0] = 0
    <3>1. PICK s : s = FeesOf(txs, u)
      OBVIOUS
    <3>2. s = [j \in 1..(len - 1) |-> Fee(txs[j + 1], u)]
      BY <1>1, <3>1 DEF FeesOf
    <3>3. Len(s) \in Nat
      BY ONLY <3>2, len \in Nat \ {0}
    <3> QED BY <3>1, <3>3, SumsStep
  <2>9. Applied(c, h, u, txs, 0, acc)
    BY <2>5, <2>6, <2>7, <2>8 DEF Applied
  <2>10. run[0 + 1] = acc
    BY <1>3, <2>4
  <2> QED BY <2>9, <2>10
<1>5. ASSUME NEW m \in Nat, m \in S PROVE m + 1 \in S
  <2> SUFFICES ASSUME (m + 1) + 1 <= len PROVE Applied(c, h, u, txs, m + 1, run[(m + 1) + 1])
    OBVIOUS
  <2>1. m + 1 <= len /\ m + 2 <= Len(txs) /\ m + 2 \in 1..len /\ (m + 1) + 1 = m + 2
    BY <1>1
  <2>2. PICK acc : acc = run[m + 1]
    OBVIOUS
  <2>3. Applied(c, h, u, txs, m, acc)
    BY <1>5, <2>1, <2>2
  <2>4. Applied(c, h, u, txs, m + 1, SpendStep(acc, txs[m + 2], h))
    BY <2>1, <2>3, NextApplies
  <2> QED BY <1>3, <2>1, <2>2, <2>4
<1>6. \A m \in Nat : m \in S
  <2> HIDE DEF S
  <2> QED BY <1>4, <1>5, NatSetInduction
<1>7. Applied(c, h, u, txs, len - 1, run[len])
  <2>1. len - 1 \in S /\ (len - 1) + 1 = len
    BY <1>6
  <2> QED BY <2>1
<1>8. PICK acc : acc = run[len]
  OBVIOUS
<1>9. SpendTxs(txs, h, u) = acc
  BY <1>1, <1>2, <1>8 DEF SpendTxs
<1>10. acc.ok /\ MidBlock(c, h, u, len - 1, acc) /\ acc.fees = Sums(FeesOf(txs, u))[len - 1]
  BY <1>7, <1>8 DEF Applied
<1>11. Total(FeesOf(txs, u)) = Sums(FeesOf(txs, u))[len - 1]
  <2>1. PICK s : s = FeesOf(txs, u)
    OBVIOUS
  <2>2. s = [j \in 1..(len - 1) |-> Fee(txs[j + 1], u)]
    BY <1>1, <2>1 DEF FeesOf
  <2>3. Len(s) = len - 1
    BY ONLY <2>2, len \in Nat \ {0}
  <2> QED BY <2>1, <2>3 DEF Total
<1>12. acc.fees \in Nat /\ UtxoTotal(acc.utxos) + acc.fees = UtxoTotal(u)
       /\ UtxoTotal(acc.utxos) \in Nat
  <2>1. acc.fees \in Nat /\ UtxoTotal(acc.utxos) + acc.fees = UtxoTotal(u)
    BY <1>10 DEF MidBlock
  <2>2. Hist(At(c, DoneTo(c, h, (len - 1) + 1)), acc.utxos)
    BY <1>10 DEF MidBlock
  <2> QED BY <2>1, <2>2, AmountsType DEF Hist, LeftUnspent
<1>13. acc.fees <= UtxoTotal(u) /\ UtxoTotal(u) \in Nat
  BY ONLY <1>12
<1> QED BY <1>9, <1>10, <1>11, <1>12, <1>13

-----------------------------------------------------------------------------
(***************************************************************************)
(* Templates.                                                              *)
(***************************************************************************)
\* What build_block_template promises, read off the block universe: the next
\* header after t.prev, with transactions that are each valid there.
TemplateOk(t) ==
    LET path == TreePath[t.prev]
        r    == ApplyChain(path)
    IN  /\ t.prev \in Blocks /\ path \in Seq(Blocks) /\ Len(path) \in 1..MAX_HEIGHT
        /\ r.ok
        /\ t.height = Len(path)
        /\ t.bits = NEXT_BITS(BLOCK[t.prev].time - BLOCK[Genesis].time, Len(path) - 1)
        /\ t.time > MedianOf(TreeTimes(t.prev))
        /\ t.txs \subseteq Txs /\ IsFiniteSet(t.txs) /\ Fits(t.txs)
        /\ \A tx \in t.txs : ~IsCoinbase(tx) /\ TxOk(tx, Len(path), r.utxos)
        /\ t.coinbase = BLOCK_REWARD[Len(path)]
                          + SumFunction([tx \in t.txs |-> Fee(tx, r.utxos)])

\* A block made from such a template has a header add_block accepts.
LEMMA MinedHeaderOk ==
  ASSUME NEW t, TemplateOk(t), NEW b \in Blocks, Solves(b, t)
  PROVE  TreeHeaderOk(b)
<1>1. /\ BLOCK[b].prev = t.prev /\ BLOCK[b].time = t.time /\ BLOCK[b].bits = t.bits /\ BLOCK[b].pow
      /\ BLOCK[b].size <= TEMPLATE_SLACK + Sizes(t.txs)
  BY DEF Solves
<1>2. /\ t.bits = NEXT_BITS(BLOCK[t.prev].time - BLOCK[Genesis].time, Len(TreePath[t.prev]) - 1)
      /\ t.time > MedianOf(TreeTimes(t.prev))
      /\ t.txs \subseteq Txs /\ IsFiniteSet(t.txs) /\ Sizes(t.txs) <= Budget
  BY DEF TemplateOk, Fits
<1>3. Sizes(t.txs) \in Nat
  BY <1>2, SizesType
<1>4. BLOCK[b].size <= MAX_BLOCK_SIZE
  <2>1. BLOCK[b].size \in Nat
    BY BlocksAssumption
  <2>2. TEMPLATE_SLACK \in Nat /\ MAX_BLOCK_SIZE \in Nat /\ TEMPLATE_SLACK <= MAX_BLOCK_SIZE
    BY NodeAssumption
  <2>3. Sizes(t.txs) <= MAX_BLOCK_SIZE - TEMPLATE_SLACK
    BY <1>2, <1>3, <2>2 DEF Budget
  <2> QED BY ONLY <1>1, <1>3, <2>1, <2>2, <2>3
<1> QED BY <1>1, <1>2, <1>4 DEF TreeHeaderOk

\* A list as long as the set of its elements names none of them twice.
LEMMA ListsOnce ==
  ASSUME NEW len \in Nat \ {0}, NEW txs, NEW T, IsFiniteSet(T), len = Cardinality(T) + 1,
         {txs[i] : i \in 2..len} = T
  PROVE  \A i, j \in 2..len : txs[i] = txs[j] => i = j
<1> DEFINE f == [i \in 2..len |-> txs[i]]
<1>1. f \in Surjection(2..len, T)
  <2>1. f \in [2..len -> T]
    OBVIOUS
  <2>2. \A y \in T : \E i \in 2..len : f[i] = y
    OBVIOUS
  <2> HIDE DEF f
  <2> QED BY <2>1, <2>2 DEF Surjection
<1>2. IsFiniteSet(2..len) /\ Cardinality(2..len) = len - 1
  <2>1. 2 \in Int /\ len \in Int
    OBVIOUS
  <2>2. /\ IsFiniteSet(2..len)
        /\ Cardinality(2..len) = IF 2 > len THEN 0 ELSE len - 2 + 1
    BY <2>1, FS_Interval
  <2> QED BY <2>2
<1>3. Cardinality(T) = Cardinality(2..len)
  <2>1. Cardinality(T) \in Nat
    BY FS_CardinalityType
  <2> QED BY <1>2, <2>1
<1>4. f \in Injection(2..len, T)
  <2> HIDE DEF f
  <2> QED BY <1>1, <1>2, <1>3, FS_Surjection
<1>5. \A i, j \in 2..len : f[i] = f[j] => i = j
  <2> HIDE DEF f
  <2> QED BY <1>4 DEF Injection, IsInjective
<1> QED BY <1>5

\* A valid transaction pays a fee that is no less than zero.
LEMMA FeeType ==
  ASSUME NEW tx \in Txs, NEW h, NEW u, IsUtxoMap(u), TxOk(tx, h, u)
  PROVE  Fee(tx, u) \in Nat
<1>1. Spent(tx) \subseteq DOMAIN u
  BY DEF TxOk, InputOk, Spent
<1>2. InTotal(tx, u) \in Nat /\ OutTotal(tx) \in Nat /\ OutTotal(tx) <= InTotal(tx, u)
  BY <1>1, InTotalType, OutTotalType DEF TxOk
<1> QED BY ONLY <1>2 DEF Fee

\* The fees of a list and of the set it lists are the same.
LEMMA FeesListed ==
  ASSUME NEW len \in Nat \ {0}, NEW txs, Len(txs) = len, NEW T, T \subseteq Txs, IsFiniteSet(T),
         {txs[i] : i \in 2..len} = T, \A i, j \in 2..len : txs[i] = txs[j] => i = j,
         NEW u, \A tx \in T : Fee(tx, u) \in Nat
  PROVE  Total(FeesOf(txs, u)) = SumFunction([tx \in T |-> Fee(tx, u)])
<1>1. PICK f : f = [tx \in T |-> Fee(tx, u)]
  OBVIOUS
<1>2. PICK s : s = [j \in 1..(len - 1) |-> txs[j + 1]]
  OBVIOUS
<1>3. PICK g : g = [j \in 1..(len - 1) |-> Fee(txs[j + 1], u)]
  OBVIOUS
<1>4. FeesOf(txs, u) = g
  BY <1>3 DEF FeesOf
<1>5. f \in [T -> Nat] /\ \A x \in T : f[x] = Fee(x, u)
  BY <1>1
<1>6. \A j \in 1..(len - 1) : j + 1 \in 2..len /\ txs[j + 1] \in T
  OBVIOUS
<1>7. s \in Seq(T) /\ g \in Seq(Nat) /\ Len(g) = Len(s) /\ DOMAIN s = 1..(len - 1)
  <2>1. s \in [1..(len - 1) -> T]
    BY <1>2, <1>6
  <2>2. g \in [1..(len - 1) -> Nat]
    BY <1>3, <1>6
  <2>3. len - 1 \in Nat
    OBVIOUS
  <2> QED BY ONLY <2>1, <2>2, <2>3
<1>8. \A i, j \in DOMAIN s : s[i] = s[j] => i = j
  <2> SUFFICES ASSUME NEW i \in 1..(len - 1), NEW j \in 1..(len - 1), s[i] = s[j] PROVE i = j
    BY <1>7
  <2>1. txs[i + 1] = txs[j + 1] /\ i + 1 \in 2..len /\ j + 1 \in 2..len
    BY <1>2, <1>6
  <2>2. i + 1 = j + 1
    BY <2>1
  <2> QED BY <2>2
<1>9. \A i \in DOMAIN s : g[i] = f[s[i]]
  BY <1>2, <1>3, <1>5, <1>6, <1>7
<1>10. Listing(T, f, s, g)
  BY <1>5, <1>7, <1>8, <1>9 DEF Listing
<1>11. SumFunction(Unlisted(T, f, s)) + Total(g) = SumFunction(f)
  BY <1>10, SumWithout
<1>12. DOMAIN Unlisted(T, f, s) = {}
  <2>1. ASSUME NEW x \in T PROVE x \in {s[i] : i \in DOMAIN s}
    <3>1. PICK i \in 2..len : txs[i] = x
      OBVIOUS
    <3>2. i - 1 \in 1..(len - 1) /\ (i - 1) + 1 = i
      OBVIOUS
    <3>3. s[i - 1] = x
      BY <1>2, <3>1, <3>2
    <3> QED BY <1>7, <3>2, <3>3
  <2> QED BY <2>1 DEF Unlisted
<1>13. SumFunction(Unlisted(T, f, s)) = 0
  <2>1. PICK w : w = Unlisted(T, f, s)
    OBVIOUS
  <2>2. SumFunction(w) = 0
    BY <1>12, <2>1, SumEmpty
  <2> QED BY <2>1, <2>2
<1>14. Total(g) \in Nat
  BY <1>7, TotalType
<1>15. Total(g) = SumFunction(f)
  BY ONLY <1>11, <1>13, <1>14
<1> QED BY <1>1, <1>4, <1>15

\* What a chain's transactions leave behind does not depend on what follows.
LEMMA HistOfPrefix ==
  ASSUME NEW path \in Seq(Blocks), NEW b, NEW h, h = Len(path)
  PROVE  At(Append(path, b), Done(Append(path, b), h)) = At(path, Done(path, h))
<1>1. PICK c : c = Append(path, b)
  OBVIOUS
<1>2. h \in Nat /\ \A i \in 1..h : c[i] = path[i]
  BY <1>1
<1>3. Done(c, h) = Done(path, h)
  BY ONLY <1>2 DEF Done
<1>4. \A p \in Done(path, h) : p[1] \in 1..h
  BY <1>2, DoneFacts
<1>5. At(c, Done(path, h)) = At(path, Done(path, h))
  BY ONLY <1>2, <1>4 DEF At
<1> QED BY <1>1, <1>3, <1>5

\* What the block's transactions find on the branch they extend.
LEMMA TemplateBatch ==
  ASSUME NEW t, TemplateOk(t), NEW b \in Blocks, Solves(b, t),
         NEW path, path = TreePath[t.prev], NEW h, h = Len(path),
         NEW r, r = ApplyChain(path), NEW txs, txs = BLOCK[b].txs
  PROVE  /\ Batch(Append(path, b), h, r.utxos, txs)
         /\ h \in 1..MAX_HEIGHT /\ r.supply \in Nat /\ r.supply <= Issued[h - 1]
         /\ UtxoTotal(r.utxos) <= r.supply
         /\ \A i, j \in 2..Len(txs) : txs[i] = txs[j] => i = j
<1>1. path \in Seq(Blocks) /\ h \in 1..MAX_HEIGHT /\ r.ok
  BY DEF TemplateOk
<1>2. ReplayAcc(r, h) /\ Replayed(path, h, r)
  <2>1. Len(path) \in 1..(MAX_HEIGHT + 1)
    BY <1>1, LedgerAssumption
  <2> QED BY <1>1, <2>1, ApplyChainAcc, ReplayKeepsHist
<1>3. /\ r.supply \in Nat /\ r.supply <= MAX_U64 /\ r.supply <= Issued[h - 1]
      /\ IsUtxoMap(r.utxos)
  BY <1>1, <1>2 DEF ReplayAcc
<1>4. Hist(At(path, Done(path, h)), r.utxos) /\ UtxoTotal(r.utxos) <= r.supply
  BY <1>1, <1>2 DEF Replayed
<1>5. UtxoTotal(r.utxos) \in Nat
  BY <1>4, AmountsType DEF Hist, LeftUnspent
<1>6. UtxoTotal(r.utxos) <= MAX_U64
  BY ONLY <1>3, <1>4, <1>5, LedgerAssumption
<1>7. PICK len : len = Len(txs)
  OBVIOUS
<1>8. txs \in Seq(Txs)
  BY BlocksAssumption
<1>9. /\ t.txs \subseteq Txs /\ IsFiniteSet(t.txs) /\ Disjoint(t.txs)
      /\ \A tx \in t.txs : ~IsCoinbase(tx) /\ TxOk(tx, h, r.utxos)
      /\ {txs[i] : i \in 2..len} = t.txs /\ len = Cardinality(t.txs) + 1
  BY <1>7 DEF TemplateOk, Fits, Solves
<1>10. len \in Nat \ {0} /\ \A i \in 1..len : txs[i] \in Txs
  <2>1. Cardinality(t.txs) \in Nat
    BY <1>9, FS_CardinalityType
  <2>2. len \in Nat \ {0}
    BY <1>9, <2>1
  <2> QED BY <1>7, <1>8, <2>2
<1>11. \A i, j \in 2..len : txs[i] = txs[j] => i = j
  <2>1. PICK T : T = t.txs
    OBVIOUS
  <2>2. IsFiniteSet(T) /\ len = Cardinality(T) + 1 /\ {txs[i] : i \in 2..len} = T
    BY <1>9, <2>1
  <2> QED BY ONLY <1>10, <2>2, ListsOnce
<1>12. \A i \in 2..len : txs[i] \in t.txs
  BY <1>9
<1>13. \A i, j \in 2..len : i # j => Spent(txs[i]) \cap Spent(txs[j]) = {}
  BY <1>9, <1>11, <1>12 DEF Disjoint
<1>14. PICK c : c = Append(path, b)
  OBVIOUS
<1>15. c[h + 1] = b
  BY <1>1, <1>14
<1>16. Hist(At(c, Done(c, h)), r.utxos)
  BY <1>1, <1>4, <1>14, HistOfPrefix
<1>17. Batch(c, h, r.utxos, txs)
  <2>1. txs = BLOCK[c[h + 1]].txs
    BY <1>15
  <2>2. \A i \in 2..len : ~IsCoinbase(txs[i]) /\ TxOk(txs[i], h, r.utxos)
    BY <1>9, <1>12
  <2> QED BY ONLY <2>1, <2>2, <1>6, <1>7, <1>10, <1>13, <1>16 DEF Batch
<1> QED BY <1>1, <1>3, <1>4, <1>7, <1>11, <1>14, <1>17

\* What a transaction of one output pays out.
LEMMA OneOutput ==
  ASSUME NEW tx \in Txs, Len(tx.outputs) = 1, NEW n, n \in Nat, tx.outputs[1].amount = n
  PROVE  OutTotal(tx) = n
<1>1. PICK s : s = [i \in DOMAIN tx.outputs |-> tx.outputs[i].amount]
  OBVIOUS
<1>2. DOMAIN tx.outputs = 1..1
  BY OutputsTyped
<1>3. s = [i \in 1..1 |-> n]
  <2>1. s = [i \in 1..1 |-> tx.outputs[i].amount]
    BY <1>1, <1>2
  <2>2. \A i \in 1..1 : tx.outputs[i].amount = n
    OBVIOUS
  <2> QED BY ONLY <2>1, <2>2
<1>4. Len(s) = 1 /\ s[1] = n
  BY ONLY <1>3
<1>5. Sums(s)[0] = 0 /\ Sums(s)[1] = Sums(s)[0] + s[1]
  <2>1. Len(s) \in Nat
    BY <1>4
  <2>2. Sums(s)[0] = 0 /\ \A i \in 1..Len(s) : Sums(s)[i] = Sums(s)[i - 1] + s[i]
    BY <2>1, SumsStep
  <2>3. 1 \in 1..Len(s) /\ 1 - 1 = 0
    BY <1>4
  <2> QED BY ONLY <2>2, <2>3
<1>6. Total(s) = n
  BY ONLY <1>4, <1>5, n \in Nat DEF Total
<1> QED BY <1>1, <1>6 DEF OutTotal

\* The ids in a mined block are distinct, its coinbase's included.
LEMMA MinedIdsDistinct ==
  ASSUME NEW c, NEW h, NEW u, NEW txs, DOMAIN txs = 1..Len(txs), Batch(c, h, u, txs),
         IsCoinbase(txs[1]),
         \A i, j \in 2..Len(txs) : txs[i] = txs[j] => i = j
  PROVE  \A i, j \in DOMAIN txs : i # j => txs[i].txid # txs[j].txid
<1>1. PICK len \in Nat \ {0} : len = Len(txs)
  BY DEF Batch
<1>2. /\ \A i \in 1..len : txs[i] \in Txs
      /\ \A i \in 2..len : ~IsCoinbase(txs[i]) /\ TxOk(txs[i], h, u)
  BY <1>1 DEF Batch
<1>3. ASSUME NEW i \in 1..len, NEW j \in 1..len, i # j, txs[i].txid = txs[j].txid
      PROVE  FALSE
  <2>1. txs[i].inputs = txs[j].inputs
    BY <1>2, <1>3, TxidAssumption
  <2>2. CASE i = 1 \/ j = 1
    <3>1. i \in 2..len \/ j \in 2..len
      BY <1>3
    <3> QED BY <1>2, <2>1, <2>2, <3>1 DEF IsCoinbase
  <2>3. CASE i \in 2..len /\ j \in 2..len
    <3>1. txs[i] = txs[j]
      BY <1>2, <1>3, <2>3, SameTxid
    <3> QED BY <1>1, <1>3, <2>3, <3>1
  <2> QED BY <2>2, <2>3
<1>4. DOMAIN txs = 1..len
  BY <1>1
<1> QED BY <1>3, <1>4

\* A block made from such a template replays on its branch: no transaction of
\* it fails after the ones before it, and its coinbase claims what it may.
LEMMA MinedReplays ==
  ASSUME NEW t, TemplateOk(t), NEW b \in Blocks, Solves(b, t)
  PROVE  ApplyChain(TreePath[b]).ok
<1>1. PICK path, h, r, u, txs :
        /\ path = TreePath[t.prev] /\ h = Len(path) /\ r = ApplyChain(path)
        /\ u = r.utxos /\ txs = BLOCK[b].txs
  OBVIOUS
<1>2. /\ Batch(Append(path, b), h, u, txs)
      /\ h \in 1..MAX_HEIGHT /\ r.supply \in Nat /\ r.supply <= Issued[h - 1]
      /\ UtxoTotal(u) <= r.supply
      /\ \A i, j \in 2..Len(txs) : txs[i] = txs[j] => i = j
  <2>1. /\ Batch(Append(path, b), h, r.utxos, txs)
        /\ h \in 1..MAX_HEIGHT /\ r.supply \in Nat /\ r.supply <= Issued[h - 1]
        /\ UtxoTotal(r.utxos) <= r.supply
        /\ \A i, j \in 2..Len(txs) : txs[i] = txs[j] => i = j
    BY <1>1, TemplateBatch
  <2> QED BY <1>1, <2>1
<1>3. path \in Seq(Blocks) /\ r.ok /\ BLOCK[b].prev \in Blocks /\ BLOCK[b].prev = t.prev
  BY <1>1 DEF TemplateOk, Solves
<1>4. ApplyChain(TreePath[b]) = ReplayStep(r, b, h)
  BY <1>1, <1>3, PathOfChild, ReplayAppend
<1>5. PICK len \in Nat \ {0} : len = Len(txs) /\ \A i \in 1..len : txs[i] \in Txs
  BY <1>2 DEF Batch
<1>6. txs \in Seq(Txs) /\ DOMAIN txs = 1..Len(txs) /\ txs # <<>>
  <2>1. txs \in Seq(Txs)
    BY <1>1, BlocksAssumption
  <2> QED BY <1>5, <2>1
<1>7. PICK sp : sp = SpendTxs(txs, h, u)
  OBVIOUS
<1>8. /\ sp.ok /\ sp.fees = Total(FeesOf(txs, u)) /\ sp.fees \in Nat
      /\ sp.fees <= UtxoTotal(u) /\ UtxoTotal(u) \in Nat
  <2>1. PICK c : c = Append(path, b)
    OBVIOUS
  <2>2. h \in Nat /\ Batch(c, h, u, txs)
    BY <1>2, <2>1
  <2>3. /\ SpendTxs(txs, h, u).ok
        /\ SpendTxs(txs, h, u).fees = Total(FeesOf(txs, u))
        /\ SpendTxs(txs, h, u).fees \in Nat /\ SpendTxs(txs, h, u).fees <= UtxoTotal(u)
        /\ UtxoTotal(u) \in Nat
    BY ONLY <2>2, BatchApplies
  <2> QED BY <1>7, <2>3
<1>9. PICK T : T = t.txs
  OBVIOUS
<1>10. /\ T \subseteq Txs /\ IsFiniteSet(T) /\ {txs[i] : i \in 2..len} = T
       /\ \A tx \in T : TxOk(tx, h, u)
       /\ t.coinbase = BLOCK_REWARD[h] + SumFunction([tx \in T |-> Fee(tx, u)])
       /\ t.height = h
  BY <1>1, <1>5, <1>9 DEF TemplateOk, Solves
<1>11. SumFunction([tx \in T |-> Fee(tx, u)]) = sp.fees
  <2>1. IsUtxoMap(u)
    BY <1>2 DEF Batch, Hist, LeftUnspent
  <2>2. \A tx \in T : Fee(tx, u) \in Nat
    BY <1>10, <2>1, FeeType
  <2>3. \A i, j \in 2..len : txs[i] = txs[j] => i = j
    BY <1>2, <1>5
  <2>4. Total(FeesOf(txs, u)) = SumFunction([tx \in T |-> Fee(tx, u)])
    BY <1>5, <1>10, <2>2, <2>3, FeesListed
  <2> QED BY <1>8, <2>4
<1>12. PICK cb \in Txs, reward \in Nat \ {0}, fees \in Nat :
          cb = txs[1] /\ reward = BLOCK_REWARD[h] /\ fees = sp.fees
  <2>1. 1 \in 1..len /\ h \in 0..MAX_HEIGHT
    BY <1>2, LedgerAssumption
  <2>2. BLOCK_REWARD[h] \in Nat \ {0}
    BY <1>2, <2>1, LedgerAssumption, RewardAssumption
  <2> QED BY <1>5, <1>8, <2>1, <2>2
<1>13. /\ IsCoinbase(cb) /\ cb.data = h /\ cb.witnesses = <<>>
       /\ Len(cb.outputs) = 1 /\ cb.outputs[1].amount = reward + fees
  BY <1>1, <1>10, <1>11, <1>12 DEF Solves
<1>14. OutTotal(cb) = reward + fees
  <2>1. reward + fees \in Nat
    OBVIOUS
  <2> QED BY <1>13, <2>1, OneOutput
<1>15. reward + fees <= MAX_U64 /\ r.supply + reward <= MAX_U64
  <2>1. /\ Issued[h] = Issued[h - 1] + reward /\ Issued[h] <= Issued[MAX_HEIGHT]
        /\ Issued[h] \in Nat /\ Issued[h - 1] \in Nat /\ Issued[MAX_HEIGHT] \in Nat
    <3>1. h \in 0..MAX_HEIGHT /\ h - 1 \in 0..MAX_HEIGHT /\ MAX_HEIGHT \in 0..MAX_HEIGHT
      BY <1>2, LedgerAssumption
    <3> QED BY <1>2, <1>12, <3>1, IssuedMonotone
  <2>2. Issued[h] <= MAX_U64
    BY ONLY <2>1, SupplyCapAssumption, LedgerAssumption
  <2>3. PICK was \in Nat, now \in Nat, total \in Nat, sum \in Nat, max \in Nat :
           was = Issued[h - 1] /\ now = Issued[h] /\ total = UtxoTotal(u) /\ sum = r.supply
           /\ max = MAX_U64
    BY <1>2, <1>8, <2>1, LedgerAssumption
  <2>4. /\ now = was + reward /\ now <= max /\ fees <= total /\ total <= sum /\ sum <= was
    BY ONLY <1>2, <1>8, <1>12, <2>1, <2>2, <2>3
  <2>5. reward + fees <= max /\ sum + reward <= max
    BY ONLY <2>4, reward \in Nat, fees \in Nat, was \in Nat, now \in Nat, total \in Nat,
            sum \in Nat, max \in Nat
  <2> QED BY ONLY <2>3, <2>5
<1>16. CoinbaseOk(cb, fees, h)
  <2>1. DOMAIN cb.outputs = 1..1
    BY <1>13, OutputsTyped
  <2>2. \A i \in DOMAIN cb.outputs : cb.outputs[i].amount # 0
    <3>1. reward + fees # 0
      BY <1>12
    <3> QED BY <1>13, <2>1, <3>1
  <2>3. OutTotal(cb) <= MAX_U64 /\ OutTotal(cb) <= reward + fees
    BY ONLY <1>12, <1>14, <1>15
  <2> QED BY <1>12, <1>15, <2>2, <2>3 DEF CoinbaseOk
<1>17. BlockShapeOk(txs, h)
  <2>1. \A i, j \in DOMAIN txs : i # j => txs[i].txid # txs[j].txid
    <3>1. PICK c : c = Append(path, b)
      OBVIOUS
    <3>2. /\ DOMAIN txs = 1..Len(txs) /\ Batch(c, h, u, txs) /\ IsCoinbase(txs[1])
          /\ \A i, j \in 2..Len(txs) : txs[i] = txs[j] => i = j
      BY ONLY <1>2, <1>6, <1>12, <1>13, <3>1
    <3> QED BY ONLY <3>2, MinedIdsDistinct
  <2>2. cb.outputs # <<>>
    BY <1>13
  <2> QED BY <1>6, <1>12, <1>13, <2>1, <2>2 DEF BlockShapeOk
<1>18. PICK v : v = ValidateBlockTxs(txs, h, u)
  OBVIOUS
<1>19. v.ok /\ v.minted = reward
  <2>1. v.ok = (sp.ok /\ CoinbaseOk(cb, fees, h)) /\ v.minted = Minted(cb, fees)
    BY <1>7, <1>12, <1>17, <1>18 DEF ValidateBlockTxs
  <2>2. Minted(cb, fees) = reward
    BY <1>12, <1>14 DEF Minted
  <2> QED BY <1>8, <1>16, <2>1, <2>2
<1>20. ReplayStep(r, b, h).ok
  BY <1>1, <1>3, <1>15, <1>18, <1>19 DEF ReplayStep
<1> QED BY <1>4, <1>20

-----------------------------------------------------------------------------
\* The template of a state promises what it says.
LEMMA TemplateIsOk ==
  ASSUME ChainInv, GenesisTime, Height < MAX_HEIGHT, NEW cand, cand \subseteq Txs,
         IsFiniteSet(cand), NEW ts, Included(cand, ts), NEW now \in Clock
  PROVE  TemplateOk(Template(ts, now)) /\ Template(ts, now).prev = Tip
<1>1. PICK t : t = Template(ts, now)
  OBVIOUS
<1>2. /\ t.prev = Tip /\ t.height = Height + 1 /\ t.time = TemplateTime(now)
      /\ t.bits = ExpectedBits(Tip) /\ t.txs = ts
      /\ t.coinbase = BLOCK_REWARD[Height + 1] + SumFunction([tx \in ts |-> Fee(tx, utxos)])
  BY <1>1 DEF Template
<1>3. /\ TreePath[Tip] = active /\ Tip \in all /\ Tip \in Blocks /\ active \in Seq(Blocks)
      /\ Len(active) = Height + 1 /\ Height \in 0..MAX_HEIGHT /\ meta[Tip].height = Height
  BY TipPath
<1>4. Len(active) \in 1..MAX_HEIGHT /\ Len(active) - 1 = Height
  BY ONLY <1>3, Height < MAX_HEIGHT, LedgerAssumption
<1>5. ApplyChain(active).ok /\ ApplyChain(active).utxos = utxos
  BY DEF ChainInv, LedgerIsReplay
<1>6. t.bits = NEXT_BITS(BLOCK[Tip].time - BLOCK[Genesis].time, Len(active) - 1)
  <2>1. meta[Tip].time = BLOCK[Tip].time
    BY <1>3 DEF ChainInv, KnownTree, IsTree, GenesisTime
  <2> QED BY <1>2, <1>3, <1>4, <2>1 DEF ExpectedBits, GenesisTime
<1>7. t.time > MedianOf(TreeTimes(Tip))
  <2>1. MedianTimePast(Tip) = MedianOf(TreeTimes(Tip))
    BY <1>3, MedianOfTree
  <2>2. MedianOf(TreeTimes(Tip)) \in Nat
    <3>1. TreeTimes(Tip) \in Seq(Nat) /\ TreeTimes(Tip) # <<>>
      BY <1>3, TreeTimesType
    <3> QED BY ONLY <3>1, MedianType
  <2>3. now \in Nat
    BY NodeAssumption
  <2> QED BY ONLY <1>2, <2>1, <2>2, <2>3 DEF TemplateTime
<1>8. ts \subseteq Txs /\ IsFiniteSet(ts) /\ Fits(ts)
      /\ \A tx \in ts : ~IsCoinbase(tx) /\ TxOk(tx, Len(active), utxos)
  <2>1. ts \subseteq {tx \in cand : ValidNext(tx)} /\ Fits(ts)
    BY DEF Included
  <2> QED BY <1>3, <2>1, FS_Subset DEF ValidNext
<1>9. TemplateOk(t)
  BY <1>2, <1>3, <1>4, <1>5, <1>6, <1>7, <1>8 DEF TemplateOk
<1> QED BY <1>1, <1>2, <1>9

-----------------------------------------------------------------------------
(***************************************************************************)
(* The chain file and the blocks of this node.                             *)
(***************************************************************************)
\* Blocks that exist so far: nobody has made the others.
Known == {Genesis} \cup mined \cup setup.foreign

\* A chain that add_block accepts block by block.
FileOk(c) ==
    /\ c \in Seq(Blocks) /\ Len(c) \in 1..(MAX_HEIGHT + 1)
    /\ c[1] = Genesis
    /\ \A i \in 2..Len(c) : BLOCK[c[i]].prev = c[i - 1] /\ TreeHeaderOk(c[i])
    /\ ApplyChain(c).ok

\* Every known block was let in by its header, and somebody made it.
TreePart ==
    /\ GenesisTime
    /\ \A b \in all : b # Genesis => TreeHeaderOk(b)
    /\ all \subseteq Known

\* The chain file holds a chain that loads.
DiskPart == FileOk(disk) /\ \A i \in DOMAIN disk : disk[i] \in Known

\* The template being worked on is one of a known block.
JobPart == job # NoJob => TemplateOk(job) /\ job.prev \in all

\* What is loaded so far is all there is in memory.
LoadPart ==
    mode \in {"down", "loading"} =>
        /\ loaded \in 1..Len(disk)
        /\ active = SubSeq(disk, 1, loaded)
        /\ all = {disk[i] : i \in 1..loaded}

\* The queue directory holds finitely many transactions.
FilesPart == files \subseteq Txs /\ IsFiniteSet(files)

\* All of them; the mode "refused", of a file that does not load or of a block
\* of one's own that is rejected, is not among the modes.
HistoryInv ==
    /\ TreePart /\ DiskPart /\ JobPart /\ LoadPart /\ FilesPart
    /\ mode \in {"down", "loading", "run", "offline"}

\* Every initial part of a chain that replays does.
LEMMA PrefixReplays ==
  ASSUME NEW c \in Seq(Blocks), Len(c) \in 1..(MAX_HEIGHT + 1), ApplyChain(c).ok,
         NEW k \in 1..Len(c)
  PROVE  ApplyChain(SubSeq(c, 1, k)).ok
<1>1. PICK len \in Nat \ {0} : len = Len(c) /\ len <= MAX_HEIGHT + 1
  BY LedgerAssumption
<1> DEFINE Cut(n) == SubSeq(c, 1, n)
           S == {d \in Nat : d < len => ApplyChain(Cut(len - d)).ok}
<1>2. \A n \in 1..len : Cut(n) \in Seq(Blocks) /\ Len(Cut(n)) = n
  BY <1>1
<1>3. 0 \in S
  <2>1. Cut(len) = c
    BY <1>1
  <2>2. len - 0 = len
    OBVIOUS
  <2> QED BY <2>1, <2>2
<1>4. ASSUME NEW d \in Nat, d \in S PROVE d + 1 \in S
  <2> SUFFICES ASSUME d + 1 < len PROVE ApplyChain(Cut(len - (d + 1))).ok
    OBVIOUS
  <2>1. PICK n \in Nat \ {0} : n = len - (d + 1)
    OBVIOUS
  <2>2. n \in 1..len /\ n + 1 \in 1..len /\ len - d = n + 1 /\ n \in 0..MAX_HEIGHT
    BY <1>1, <2>1, LedgerAssumption
  <2>3. ApplyChain(Cut(n + 1)).ok
    BY <1>4, <2>2
  <2>4. PICK s, b : s = Cut(n) /\ b = c[n + 1]
    OBVIOUS
  <2>5. s \in Seq(Blocks) /\ Len(s) = n /\ b \in Blocks
    BY <1>1, <1>2, <2>2, <2>4
  <2>6. Cut(n + 1) = Append(s, b)
    BY <1>1, <2>2, <2>4
  <2>7. ApplyChain(Cut(n + 1)) = ReplayStep(ApplyChain(s), b, n)
    BY <2>5, <2>6, ReplayAppend
  <2>8. PICK acc : acc = ApplyChain(s)
    OBVIOUS
  <2>9. ReplayAcc(acc, n)
    <3>1. Len(s) \in 1..(MAX_HEIGHT + 1)
      BY <2>2, <2>5, LedgerAssumption
    <3> QED BY <2>5, <2>8, <3>1, ApplyChainAcc
  <2>10. acc.ok
    <3> SUFFICES ASSUME ~acc.ok PROVE FALSE
      OBVIOUS
    <3>1. /\ ReplayStep(acc, b, n) = [acc EXCEPT !.ok = FALSE]
          /\ acc = [ok |-> acc.ok, utxos |-> acc.utxos, supply |-> acc.supply]
      BY <2>9 DEF ReplayStep, ReplayAcc
    <3>2. ReplayStep(acc, b, n) = [ok |-> FALSE, utxos |-> acc.utxos, supply |-> acc.supply]
      BY <3>1
    <3> QED BY <2>3, <2>7, <2>8, <3>2
  <2> QED BY <2>1, <2>4, <2>8, <2>10
<1>5. \A d \in Nat : d \in S
  <2> HIDE DEF S
  <2> QED BY <1>3, <1>4, NatSetInduction
<1>6. len - k \in S /\ len - k < len /\ len - (len - k) = k
  <2> HIDE DEF S
  <2> QED BY <1>1, <1>5
<1> QED BY <1>6

\* The initial part of length one.
LEMMA SubSeqOne == ASSUME NEW c \in Seq(Blocks), Len(c) >= 1 PROVE SubSeq(c, 1, 1) = <<c[1]>>
<1>1. PICK s : s = SubSeq(c, 1, 1)
  OBVIOUS
<1>2. s \in Seq(Blocks) /\ Len(s) = 1 /\ s[1] = c[1]
  BY <1>1
<1>3. s = [i \in 1..1 |-> s[i]]
  BY <1>2
<1>4. s = <<c[1]>>
  BY ONLY <1>2, <1>3
<1> QED BY <1>1, <1>4

\* The active chain may be saved.
LEMMA ActiveIsFile == ChainInv /\ TreePart => FileOk(active) /\ \A i \in DOMAIN active : active[i] \in Known
<1> SUFFICES ASSUME ChainInv, TreePart
             PROVE  FileOk(active) /\ \A i \in DOMAIN active : active[i] \in Known
  OBVIOUS
<1>1. /\ active \in Seq(Blocks) /\ Len(active) \in 1..(MAX_HEIGHT + 1) /\ active[1] = Genesis
      /\ DOMAIN active = 1..Len(active)
      /\ \A i \in DOMAIN active : /\ active[i] \in all /\ meta[active[i]].height = i - 1
                                  /\ i > 1 => BLOCK[active[i]].prev = active[i - 1]
  BY DEF ChainInv, TypeOK, ActiveIsPath
<1>2. ASSUME NEW i \in 2..Len(active)
      PROVE  BLOCK[active[i]].prev = active[i - 1] /\ TreeHeaderOk(active[i])
  <2>1. i \in DOMAIN active /\ i > 1
    BY <1>1
  <2>2. active[i] # Genesis
    <3>1. meta[Genesis].height = 0 /\ meta[active[i]].height = i - 1 /\ i - 1 # 0
      BY <1>1, <2>1 DEF ChainInv, KnownTree, IsTree
    <3> QED BY <3>1
  <2> QED BY <1>1, <2>1, <2>2 DEF TreePart
<1>3. ApplyChain(active).ok
  BY DEF ChainInv, LedgerIsReplay
<1> QED BY <1>1, <1>2, <1>3 DEF FileOk, TreePart

\* add_block keeps the tree's headers good and knows no block but its own.
LEMMA AddBlockKeepsTree ==
  ASSUME ChainInv, TreePart, NEW b \in Blocks, AddBlock(b, TRUE)
  PROVE  /\ GenesisTime' /\ \A x \in all' : x # Genesis => TreeHeaderOk(x)
         /\ all \subseteq all' /\ all' \subseteq all \cup {b}
<1>1. DOMAIN meta = all /\ Genesis \in all
  BY DEF ChainInv, KnownTree, IsTree
<1>2. ASSUME UNCHANGED <<all, meta>>
      PROVE  GenesisTime' /\ (\A x \in all' : x # Genesis => TreeHeaderOk(x))
             /\ all \subseteq all' /\ all' \subseteq all \cup {b}
  BY <1>2 DEF TreePart, GenesisTime
<1>3. ASSUME Inserts(b, TRUE), InsertBlock(b)
      PROVE  GenesisTime' /\ (\A x \in all' : x # Genesis => TreeHeaderOk(x))
             /\ all \subseteq all' /\ all' \subseteq all \cup {b}
  <2>1. all' = all \cup {b} /\ meta' = InsertMeta(b) /\ b \notin all
    BY <1>3 DEF InsertBlock, Inserts
  <2>2. meta'[Genesis] = meta[Genesis]
    BY <1>1, <2>1 DEF InsertMeta
  <2>3. TreeHeaderOk(b)
    <3>1. BLOCK[b].prev \in all /\ HeaderOk(b, TRUE)
      BY <1>1, <1>3 DEF Inserts
    <3> QED BY <3>1, HeaderOfTree DEF TreePart
  <2> QED BY <2>1, <2>2, <2>3 DEF TreePart, GenesisTime
<1>4. \/ UNCHANGED <<all, meta>>
      \/ Inserts(b, TRUE) /\ InsertBlock(b)
  BY DEF AddBlock, RejectDuplicate, RejectUnknownParent, RejectHeader, KeepSideBlock, ExtendTip,
         Reorg, DiscardBlock
<1> QED BY <1>2, <1>3, <1>4

\* The next block of the file connects to the tip it was saved on.
LEMMA LoadStep ==
  ASSUME ChainInv, TreePart, FileOk(disk), LoadPart, mode = "loading", loaded < Len(disk),
         AddBlock(disk[loaded + 1], TRUE)
  PROVE  /\ ret'.res = "active"
         /\ active' = SubSeq(disk, 1, loaded + 1)
         /\ all' = {disk[i] : i \in 1..(loaded + 1)}
<1>1. PICK len \in Nat \ {0} : len = Len(disk) /\ len <= MAX_HEIGHT + 1
  BY LedgerAssumption DEF FileOk
<1>2. PICK n \in Nat \ {0} : n = loaded /\ n < len
  BY <1>1 DEF LoadPart
<1>3. disk \in Seq(Blocks) /\ disk[1] = Genesis
      /\ \A i \in 2..len : BLOCK[disk[i]].prev = disk[i - 1] /\ TreeHeaderOk(disk[i])
  BY <1>1 DEF FileOk
<1>4. active = SubSeq(disk, 1, n) /\ all = {disk[i] : i \in 1..n}
  BY <1>2 DEF LoadPart
<1>5. PICK b \in Blocks : b = disk[n + 1]
  BY <1>1, <1>2, <1>3
<1>6. n + 1 \in 2..len /\ n \in 1..len /\ (n + 1) - 1 = n
  BY <1>2
<1>7. Len(active) = n /\ Tip = disk[n] /\ \A i \in 1..n : active[i] = disk[i]
  <2>1. Len(active) = n /\ \A i \in 1..n : active[i] = disk[i]
    BY <1>1, <1>2, <1>3, <1>4
  <2> QED BY <1>2, <2>1 DEF Tip
<1>8. BLOCK[b].prev = Tip /\ TreeHeaderOk(b)
  BY <1>3, <1>5, <1>6, <1>7
<1>9. b \notin all
  <2> SUFFICES ASSUME NEW i \in 1..n, b = disk[i] PROVE FALSE
    BY <1>4
  <2>1. meta[Tip].height = n - 1 /\ Tip \in Blocks
    BY <1>2, <1>7, TipPath
  <2>2. \A j \in 1..n : meta[disk[j]].height = j - 1
    BY <1>7, <1>2 DEF ChainInv, ActiveIsPath
  <2>3. CASE i = 1
    BY <1>3, <1>8, <2>1, <2>3, BlocksAssumption
  <2>4. CASE i # 1
    <3>1. i \in 2..len /\ i - 1 \in 1..n
      BY <1>2, <2>4
    <3>2. disk[i - 1] = Tip
      BY <1>3, <1>8, <3>1
    <3>3. meta[Tip].height = (i - 1) - 1
      BY <2>2, <3>1, <3>2
    <3> QED BY <1>2, <2>1, <3>3
  <2> QED BY <2>3, <2>4
<1>10. SubSeq(disk, 1, n + 1) = Append(active, b)
  BY <1>1, <1>2, <1>3, <1>4, <1>5
<1>11. TreePath[b] = SubSeq(disk, 1, n + 1)
  BY <1>8, <1>10, PathOfChild, TipPath
<1>12. ApplyChain(TreePath[b]).ok
  <2>1. ApplyChain(disk).ok /\ Len(disk) \in 1..(MAX_HEIGHT + 1)
    BY DEF FileOk
  <2>2. n + 1 \in 1..Len(disk)
    BY <1>1, <1>2
  <2> QED BY <1>3, <1>11, <2>1, <2>2, PrefixReplays
<1>13. BLOCK[b].prev \in all /\ AddBlock(b, TRUE) /\ GenesisTime
  BY <1>2, <1>5, <1>8, TipPath DEF TreePart
<1>14. ret'.res = "active" /\ active' = Append(active, b) /\ all' = all \cup {b}
  BY <1>8, <1>9, <1>12, <1>13, ValidAccepted
<1>15. all' = {disk[i] : i \in 1..(n + 1)}
  BY <1>2, <1>4, <1>5, <1>14
<1> QED BY <1>2, <1>10, <1>14, <1>15

\* A block made from a template of a known tip is accepted, on the tip or beside
\* it: the tip may have moved on, but not the rules for that place.
LEMMA MinedAccepted ==
  ASSUME ChainInv, TreePart, NEW t, TemplateOk(t), t.prev \in all,
         NEW b \in Blocks, b \notin mined \cup setup.foreign, Solves(b, t), AddBlock(b, TRUE)
  PROVE  ret'.res \in {"active", "side"}
<1>1. BLOCK[b].prev = t.prev /\ t.prev \in Blocks
  BY DEF Solves, TemplateOk
<1>2. b # Genesis
  BY <1>1, BlocksAssumption
<1>3. b \in Blocks \ all /\ BLOCK[b].prev \in all
  BY <1>1, <1>2 DEF TreePart, Known
<1>4. TreeHeaderOk(b) /\ ApplyChain(TreePath[b]).ok
  BY MinedHeaderOk, MinedReplays
<1> QED BY <1>3, <1>4, ValidAccepted DEF TreePart

-----------------------------------------------------------------------------
\* A new process knows the genesis block, as the file's first.
LEMMA ForgetKeepsHistory ==
  ASSUME Forget, DiskPart', mode' = "down"
  PROVE  TreePart' /\ JobPart' /\ LoadPart'
<1>1. /\ all' = {Genesis} /\ active' = <<Genesis>> /\ job' = NoJob /\ loaded' = 1
      /\ meta' = [x \in {Genesis} |->
                    [height   |-> 0,
                     cum_work |-> WORK(BLOCK[Genesis].bits),
                     time     |-> BLOCK[Genesis].time,
                     parent   |-> Zero]]
  BY DEF Forget
<1>2. GenesisTime'
  BY <1>1 DEF GenesisTime
<1>3. TreePart'
  BY <1>1, <1>2 DEF TreePart, Known
<1>4. LoadPart'
  <2>1. disk' \in Seq(Blocks) /\ disk'[1] = Genesis /\ Len(disk') >= 1 /\ Len(disk') \in Nat
    BY LedgerAssumption DEF DiskPart, FileOk
  <2>2. SubSeq(disk', 1, 1) = <<Genesis>>
    BY <2>1, SubSeqOne
  <2>3. {disk'[i] : i \in 1..1} = {Genesis}
    BY <2>1
  <2>4. 1 \in 1..Len(disk')
    BY <2>1
  <2> QED BY <1>1, <2>2, <2>3, <2>4 DEF LoadPart
<1> QED BY <1>1, <1>3, <1>4 DEF JobPart

\* accept_block in a running node.
LEMMA AcceptKeepsHistory ==
  ASSUME NodeInv, HistoryInv, NEW b \in Blocks, AcceptBlock(b, TRUE), b \in Known',
         mode = "run", UNCHANGED <<setup, mode, files>>, mined \subseteq mined',
         job' \in {job, NoJob}
  PROVE  HistoryInv'
<1>0. ChainInv /\ TreePart /\ DiskPart /\ JobPart /\ AddBlock(b, TRUE)
  BY DEF NodeInv, HistoryInv, AcceptBlock
<1>1. ChainInv'
  BY <1>0, AddBlockKeepsChain
<1>2. /\ GenesisTime' /\ \A x \in all' : x # Genesis => TreeHeaderOk(x)
      /\ all \subseteq all' /\ all' \subseteq all \cup {b}
  BY <1>0, AddBlockKeepsTree
<1>3. Known \subseteq Known'
  BY DEF Known
<1>4. TreePart'
  BY <1>0, <1>2, <1>3 DEF TreePart
<1>5. DiskPart'
  <2>1. disk' \in {active', disk}
    BY DEF AcceptBlock, Save
  <2>2. CASE disk' = disk
    BY <1>0, <1>3, <2>2 DEF DiskPart, FileOk
  <2>3. CASE disk' = active'
    <3>1. FileOk(active') /\ \A i \in DOMAIN active' : active'[i] \in Known'
      <4>1. ChainInv' /\ TreePart' => (FileOk(active) /\ \A i \in DOMAIN active : active[i] \in Known)'
        BY ActiveIsFile, PTL
      <4> QED BY <1>1, <1>4, <4>1 DEF FileOk
    <3> QED BY <2>3, <3>1 DEF DiskPart
  <2> QED BY <2>1, <2>2, <2>3
<1>6. JobPart'
  BY <1>0, <1>2 DEF JobPart
<1>7. LoadPart' /\ FilesPart' /\ mode' \in {"down", "loading", "run", "offline"}
  BY DEF LoadPart, HistoryInv, FilesPart
<1> QED BY <1>4, <1>5, <1>6, <1>7 DEF HistoryInv

\* A step that adds no block.
LEMMA QuietKeepsHistory ==
  ASSUME HistoryInv, UNCHANGED <<setup, chainVars, disk>>, mined \subseteq mined'
  PROVE  TreePart' /\ DiskPart' /\ (job' = job => JobPart')
<1>1. UNCHANGED <<all, meta, active>>
  BY DEF chainVars
<1>2. Known \subseteq Known'
  BY DEF Known
<1>3. TreePart'
  BY <1>1, <1>2 DEF HistoryInv, TreePart, GenesisTime
<1>4. DiskPart'
  BY <1>2 DEF HistoryInv, DiskPart, FileOk
<1>5. job' = job => JobPart'
  BY <1>1 DEF HistoryInv, JobPart
<1> QED BY <1>3, <1>4, <1>5

\* A fresh data directory holds the genesis block.
LEMMA HistoryInit == NodeInit => HistoryInv
<1> SUFFICES ASSUME NodeInit PROVE HistoryInv
  OBVIOUS
<1>1. /\ all = {Genesis} /\ active = <<Genesis>> /\ disk = <<Genesis>> /\ loaded = 1
      /\ meta[Genesis].time = BLOCK[Genesis].time
      /\ ApplyChain(<<Genesis>>).ok
      /\ files = {} /\ job = NoJob /\ mode = "down" /\ mined = {}
  BY DEF NodeInit, Init
<1>2. TreePart
  BY <1>1 DEF TreePart, GenesisTime, Known
<1>3. DiskPart
  <2>1. <<Genesis>> \in Seq(Blocks) /\ Len(<<Genesis>>) = 1 /\ DOMAIN <<Genesis>> = 1..1
        /\ <<Genesis>>[1] = Genesis
    BY BlocksAssumption
  <2>2. 1 \in 1..(MAX_HEIGHT + 1)
    BY LedgerAssumption
  <2>3. FileOk(disk)
    BY <1>1, <2>1, <2>2 DEF FileOk
  <2> QED BY <1>1, <2>1, <2>3 DEF DiskPart, Known
<1>4. LoadPart
  <2>a. disk \in Seq(Blocks) /\ Len(disk) = 1 /\ disk[1] = Genesis
    BY <1>1, BlocksAssumption
  <2>b. SubSeq(disk, 1, 1) = <<disk[1]>>
    BY <2>a, SubSeqOne
  <2>1. SubSeq(disk, 1, 1) = <<Genesis>> /\ {disk[i] : i \in 1..1} = {Genesis} /\ Len(disk) = 1
    BY <2>a, <2>b
  <2> QED BY <1>1, <2>1 DEF LoadPart
<1>5. JobPart /\ FilesPart
  BY <1>1, FS_EmptySet DEF JobPart, FilesPart
<1> QED BY <1>1, <1>2, <1>3, <1>4, <1>5 DEF HistoryInv

\* What the other invariants of a node give these proofs.
NodeAll == NodeInv /\ BytesExact /\ HistoryInv

\* build_block_template on the tip and the pool.
LEMMA StartJobKeepsHistory ==
  ASSUME NodeAll, StartJob, UNCHANGED setup
  PROVE  HistoryInv'
<1>1. /\ mode = "run" /\ Height < MAX_HEIGHT /\ UNCHANGED <<chainVars, disk, files, mined, mode>>
  BY DEF StartJob, procVars
<1>2. PICK ts \in SUBSET pool, now \in Clock : Included(pool, ts) /\ job' = Template(ts, now)
  BY DEF StartJob
<1>3. TemplateOk(job') /\ job'.prev = Tip
  BY <1>1, <1>2, TemplateIsOk DEF NodeAll, NodeInv, HistoryInv, TreePart, BytesExact
<1>4. Tip \in all' /\ all' = all
  BY <1>1, TipIsKnown DEF NodeAll, NodeInv, chainVars
<1>5. JobPart'
  BY <1>3, <1>4 DEF JobPart
<1>6. TreePart' /\ DiskPart'
  BY <1>1, QuietKeepsHistory DEF NodeAll
<1> QED BY <1>1, <1>5, <1>6 DEF NodeAll, HistoryInv, LoadPart, FilesPart

\* load: add_block of the next block of the file.
LEMMA LoadBlockKeepsHistory ==
  ASSUME NodeAll, LoadBlock, UNCHANGED setup
  PROVE  HistoryInv'
<1>1. /\ mode = "loading" /\ loaded < Len(disk) /\ AddBlock(disk[loaded + 1], TRUE)
      /\ loaded' = loaded + 1 /\ mode' = IF ret'.res \in {"active", "side"} THEN "loading" ELSE "refused"
      /\ UNCHANGED <<job, disk, files, mined>>
  BY DEF LoadBlock
<1>2. ChainInv /\ TreePart /\ DiskPart /\ FileOk(disk) /\ LoadPart
  BY DEF NodeAll, NodeInv, HistoryInv, DiskPart
<1>3. /\ ret'.res = "active"
      /\ active' = SubSeq(disk, 1, loaded + 1)
      /\ all' = {disk[i] : i \in 1..(loaded + 1)}
  BY <1>1, <1>2, LoadStep
<1>4. mode' = "loading"
  BY <1>1, <1>3
<1>5. PICK b : b = disk[loaded + 1]
  OBVIOUS
<1>6. b \in Blocks /\ b \in Known /\ loaded + 1 \in 1..Len(disk)
  <2>1. disk \in Seq(Blocks) /\ loaded \in Nat \ {0} /\ \A i \in DOMAIN disk : disk[i] \in Known
    BY <1>2 DEF FileOk, DiskPart, NodeAll, NodeInv, NodeTypes
  <2>2. loaded + 1 \in 1..Len(disk) /\ DOMAIN disk = 1..Len(disk)
    BY <1>1, <2>1
  <2> QED BY <1>5, <2>1, <2>2
<1>7. /\ GenesisTime' /\ \A x \in all' : x # Genesis => TreeHeaderOk(x)
      /\ all \subseteq all' /\ all' \subseteq all \cup {b}
  BY <1>1, <1>2, <1>5, <1>6, AddBlockKeepsTree
<1>8. Known' = Known
  BY <1>1 DEF Known
<1>9. TreePart'
  BY <1>2, <1>6, <1>7, <1>8 DEF TreePart
<1>10. DiskPart'
  BY <1>1, <1>2, <1>8 DEF DiskPart, FileOk
<1>11. JobPart'
  BY <1>1, <1>7 DEF NodeAll, HistoryInv, JobPart
<1>12. LoadPart'
  BY <1>1, <1>3, <1>6 DEF LoadPart
<1> QED BY <1>1, <1>4, <1>9, <1>10, <1>11, <1>12 DEF NodeAll, HistoryInv, FilesPart

\* The loop of `miner mine`, on the queued files.
LEMMA OfflineMineKeepsHistory ==
  ASSUME NodeAll, NEW b \in Blocks, OfflineMine(b), UNCHANGED setup
  PROVE  HistoryInv' /\ ret'.res \in {"active", "side"}
<1>1. /\ mode = "offline" /\ Height < MAX_HEIGHT /\ b \notin mined \cup setup.foreign
      /\ AddBlock(b, TRUE) /\ mined' = mined \cup {b} /\ UNCHANGED <<job, disk>>
      /\ mode' = IF ret'.res \in {"active", "side"} THEN mode ELSE "refused"
  BY DEF OfflineMine
<1>2. PICK ts \in SUBSET files, now \in Clock :
        /\ Included(files, ts) /\ Solves(b, Template(ts, now))
        /\ files' = IF ret'.res \in {"active", "side"} THEN files \ ts ELSE files
  BY DEF OfflineMine
<1>3. ChainInv /\ TreePart /\ GenesisTime /\ DiskPart /\ FilesPart
  BY DEF NodeAll, NodeInv, HistoryInv, TreePart
<1>4. PICK t : t = Template(ts, now)
  OBVIOUS
<1>5. TemplateOk(t) /\ t.prev = Tip
  <2>1. files \subseteq Txs /\ IsFiniteSet(files)
    BY <1>3 DEF FilesPart
  <2>2. TemplateOk(Template(ts, now)) /\ Template(ts, now).prev = Tip
    BY <1>1, <1>2, <1>3, <2>1, TemplateIsOk
  <2> QED BY <1>4, <2>2
<1>6. Tip \in all
  BY <1>3, TipIsKnown
<1>7. ret'.res \in {"active", "side"}
  <2>1. t.prev \in all /\ Solves(b, t)
    BY <1>2, <1>4, <1>5, <1>6
  <2> QED BY <1>1, <1>3, <1>5, <2>1, MinedAccepted
<1>8. /\ GenesisTime' /\ \A x \in all' : x # Genesis => TreeHeaderOk(x)
      /\ all \subseteq all' /\ all' \subseteq all \cup {b}
  BY <1>1, <1>3, AddBlockKeepsTree
<1>9. Known' = Known \cup {b}
  BY <1>1 DEF Known
<1>10. TreePart'
  BY <1>3, <1>8, <1>9 DEF TreePart
<1>11. DiskPart'
  BY <1>1, <1>3, <1>9 DEF DiskPart, FileOk
<1>12. JobPart'
  BY <1>1, <1>8 DEF NodeAll, HistoryInv, JobPart
<1>13. FilesPart'
  <2>1. files' \subseteq files
    BY <1>2
  <2> QED BY <1>3, <2>1, FS_Subset DEF FilesPart
<1> QED BY <1>1, <1>7, <1>10, <1>11, <1>12, <1>13 DEF HistoryInv, LoadPart

\* Every step of the node keeps the invariant.
LEMMA HistoryNext == NodeAll /\ [NodeNext]_nodeVars => HistoryInv'
<1> SUFFICES ASSUME NodeAll, [NodeNext]_nodeVars PROVE HistoryInv'
  OBVIOUS
<1>0. /\ setup.foreign \subseteq Blocks /\ mined \subseteq Blocks
      /\ setup.queueable \subseteq Txs /\ HistoryInv
  BY DEF NodeAll, NodeInv, NodeTypes, Worlds
<1>1. ASSUME NEW b \in setup.foreign \cup mined, ReceiveBlock(b, TRUE), UNCHANGED setup
      PROVE  HistoryInv'
  <2>1. /\ mode = "run" /\ AcceptBlock(b, TRUE) /\ UNCHANGED <<mode, job, files, mined>>
    BY <1>1 DEF ReceiveBlock, procVars
  <2>2. b \in Known' /\ b \in Blocks
    BY <1>0, <1>1, <2>1 DEF Known
  <2> QED BY <1>1, <2>1, <2>2, AcceptKeepsHistory DEF NodeAll
<1>2. ASSUME NEW b \in Blocks, Found(b), UNCHANGED setup
      PROVE  HistoryInv'
  <2>1. /\ mode = "run" /\ AcceptBlock(b, TRUE) /\ job' = NoJob /\ mined' = mined \cup {b}
        /\ UNCHANGED <<mode, files>>
    BY <1>2 DEF Found, procVars
  <2>2. b \in Known'
    BY <2>1 DEF Known
  <2> QED BY <1>2, <2>1, <2>2, AcceptKeepsHistory DEF NodeAll
<1>3. ASSUME UNCHANGED <<setup, chainVars, disk, mined>>, mode' = mode, loaded' = loaded,
             job' = job \/ job' = NoJob, FilesPart'
      PROVE  HistoryInv'
  <2>1. TreePart' /\ DiskPart' /\ (job' = job => JobPart')
    BY <1>0, <1>3, QuietKeepsHistory
  <2>2. JobPart'
    BY <1>3, <2>1 DEF JobPart
  <2>3. LoadPart'
    BY <1>0, <1>3 DEF HistoryInv, LoadPart, chainVars
  <2> QED BY <1>0, <1>3, <2>1, <2>2, <2>3 DEF HistoryInv
<1>4. ASSUME NEW tx \in setup.queueable, QueueTx(tx) \/ Bridge(tx), UNCHANGED setup
      PROVE  HistoryInv'
  <2>1. UNCHANGED <<chainVars, disk, mined, mode, loaded, job>> /\ files' \subseteq files \cup {tx}
    BY <1>4 DEF QueueTx, Bridge, procVars
  <2>2. FilesPart'
    <3>1. files \cup {tx} \subseteq Txs /\ IsFiniteSet(files \cup {tx})
      BY <1>0, FS_AddElement DEF HistoryInv, FilesPart
    <3> QED BY <2>1, <3>1, FS_Subset DEF FilesPart
  <2> QED BY <1>3, <1>4, <2>1, <2>2
<1>5. ASSUME UNCHANGED files PROVE FilesPart'
  BY <1>0, <1>5 DEF HistoryInv, FilesPart
<1>6. ASSUME NEW tx, SubmitTx(tx), UNCHANGED setup PROVE HistoryInv'
  BY <1>3, <1>5, <1>6 DEF SubmitTx, procVars
<1>7. ASSUME GiveUp, UNCHANGED setup PROVE HistoryInv'
  BY <1>3, <1>5, <1>7 DEF GiveUp, procVars
<1>8. ASSUME UNCHANGED nodeVars PROVE HistoryInv'
  BY <1>3, <1>5, <1>8 DEF nodeVars, procVars
<1>9. ASSUME NEW off, Start(off) \/ LoadDone, UNCHANGED setup PROVE HistoryInv'
  <2>1. /\ UNCHANGED <<chainVars, disk, mined, loaded, job, files>>
        /\ \/ mode = "down" /\ mode' = "loading"
           \/ mode' \in {"offline", "run"}
    BY <1>9 DEF Start, LoadDone
  <2>2. TreePart' /\ DiskPart' /\ JobPart' /\ FilesPart'
    BY <1>0, <1>5, <1>9, <2>1, QuietKeepsHistory
  <2>3. LoadPart'
    BY <1>0, <2>1 DEF HistoryInv, LoadPart, chainVars
  <2> QED BY <2>1, <2>2, <2>3 DEF HistoryInv
<1>10. ASSUME OfflineExit \/ Crash, UNCHANGED setup PROVE HistoryInv'
  <2>1. Forget /\ mode' = "down" /\ disk' \in {active, disk} /\ UNCHANGED <<files, mined>>
    BY <1>10 DEF OfflineExit, Crash
  <2>2. Known' = Known
    BY <1>10, <2>1 DEF Known
  <2>3. FileOk(active) /\ \A i \in DOMAIN active : active[i] \in Known
    BY <1>0, ActiveIsFile DEF NodeAll, NodeInv, HistoryInv
  <2>4. FileOk(disk') /\ \A i \in DOMAIN disk' : disk'[i] \in Known
    BY <1>0, <2>1, <2>3 DEF HistoryInv, DiskPart
  <2>5. DiskPart'
    BY <2>2, <2>4 DEF DiskPart, FileOk
  <2>6. TreePart' /\ JobPart' /\ LoadPart'
    BY <2>1, <2>5, ForgetKeepsHistory
  <2> QED BY <1>5, <2>1, <2>5, <2>6 DEF HistoryInv
<1> QED BY <1>1, <1>2, <1>4, <1>6, <1>7, <1>8, <1>9, <1>10, StartJobKeepsHistory,
           LoadBlockKeepsHistory, OfflineMineKeepsHistory
        DEF NodeNext

\* The invariant of the data directory and of the miner.
THEOREM HistoryInvariant == NodeSpec => []NodeAll
<1>1. NodeInit => NodeAll
  <2>1. NodeInit => BytesExact
    BY SizesEmpty, FS_EmptySet, NodeAssumption DEF NodeInit, BytesExact
  <2> QED BY <2>1, NodeInitInv, HistoryInit DEF NodeAll
<1>2. NodeAll /\ [NodeNext]_nodeVars => NodeAll'
  BY NodeNextInv, NextKeepsBytes, HistoryNext DEF NodeAll
<1> QED BY <1>1, <1>2, PTL DEF NodeSpec

\* Whatever the chain file was written from, and whenever the process crashed,
\* the next start accepts every block of it and rebuilds that chain.
THEOREM StartUpSucceeds == NodeSpec => []LoadReplaysFile
<1>1. NodeAll => LoadReplaysFile
  BY DEF NodeAll, HistoryInv, LoadPart, LoadReplaysFile
<1> QED BY <1>1, HistoryInvariant, PTL

\* A block this node mines is never rejected by its own add_block: neither a
\* stale tip nor a changed mempool makes a template's block invalid.
THEOREM OwnBlocksAccepted == NodeSpec => MinedNeverRejected
<1>1. NodeAll /\ [NodeNext]_nodeVars => (mined' # mined => ret'.res \in {"active", "side"})
  <2> SUFFICES ASSUME NodeAll, [NodeNext]_nodeVars, mined' # mined
               PROVE  ret'.res \in {"active", "side"}
    OBVIOUS
  <2>1. ASSUME NEW b \in Blocks, Found(b) PROVE ret'.res \in {"active", "side"}
    <3>1. /\ job # NoJob /\ b \notin mined \cup setup.foreign /\ Solves(b, job) /\ AddBlock(b, TRUE)
      BY <2>1 DEF Found, AcceptBlock
    <3>2. ChainInv /\ TreePart /\ TemplateOk(job) /\ job.prev \in all
      BY <3>1 DEF NodeAll, NodeInv, HistoryInv, JobPart
    <3> QED BY <3>1, <3>2, MinedAccepted
  <2>2. ASSUME NEW b \in Blocks, OfflineMine(b), UNCHANGED setup PROVE ret'.res \in {"active", "side"}
    BY <2>2, OfflineMineKeepsHistory
  <2>3. UNCHANGED nodeVars => mined' = mined
    BY DEF nodeVars
  <2> QED BY <2>1, <2>2, <2>3
          DEF NodeNext, ReceiveBlock, SubmitTx, QueueTx, Bridge, StartJob, GiveUp, Start, LoadBlock,
              LoadDone, OfflineExit, Crash
<1> QED BY <1>1, HistoryInvariant, PTL DEF NodeSpec, MinedNeverRejected

=============================================================================
