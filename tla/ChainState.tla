----------------------------- MODULE ChainState -----------------------------
(***************************************************************************)
(* The block tree and active chain of crates/node/src/chain.rs.  add_block *)
(* is the only operation that changes it; the callers hold the chain mutex *)
(* across a call, so a call is one atomic step.                            *)
(*                                                                         *)
(* Block hashes commit to the header, and the header to the body through   *)
(* its two Merkle roots, so the block universe is a constant function from *)
(* hashes to contents.  What a caller delivers under a hash may still be   *)
(* another body: such a delivery is `body = FALSE` and fails check_roots.  *)
(* Proof of work is a property of the header: `pow`.                       *)
(***************************************************************************)
EXTENDS Ledger, FiniteSets

CONSTANTS
    Blocks,          \* block hashes
    Genesis,         \* the genesis hash
    BLOCK,           \* hash -> [prev, time, bits, pow, size, txs]
    NEXT_BITS(_, _), \* asert + compact: bits from (time since genesis, height)
    WORK(_),         \* work_from_target of some bits
    MTP_WINDOW,      \* 11 in the code
    MAX_BLOCK_SIZE,  \* params.max_block_size
    Zero             \* Hash256::ZERO, the parent of genesis

VARIABLES
    all,     \* domain of the map `all` (its values are BLOCK's)
    meta,    \* hash -> [height, cum_work, time, parent]
    active,  \* the active chain, genesis first
    utxos,   \* outpoint -> [output, height, coinbase]
    supply,  \* stanzas minted on the active chain
    ret      \* the last add_block call and what it returned

chainVars == <<all, meta, active, utxos, supply, ret>>

ASSUME BlocksAssumption ==
    /\ Genesis \in Blocks
    /\ Zero \notin Blocks /\ BLOCK[Genesis].prev = Zero
    /\ MTP_WINDOW \in Nat \ {0}
    /\ \A b \in Blocks :
          /\ WORK(BLOCK[b].bits) \in Nat \ {0}
          /\ BLOCK[b].time \in Nat /\ BLOCK[b].size \in Nat
          /\ BLOCK[b].txs \in Seq(Txs)

-----------------------------------------------------------------------------
Tip     == active[Len(active)]
Height  == Len(active) - 1
TipWork == meta[Tip].cum_work

(***************************************************************************)
(* The parent walk of the reorg path, reversed: genesis first, b last.     *)
(***************************************************************************)
Up(m, b) ==
    LET up[k \in 0..m[b].height] == IF k = 0 THEN b ELSE m[up[k - 1]].parent
    IN  up

Walk(m, b) ==
    [i \in 1..(m[b].height + 1) |-> Up(m, b)[m[b].height + 1 - i]]

\* Element len/2 of the last (up to) MTP_WINDOW of these times, sorted.
MedianOf(times) ==
    LET n      == IF Len(times) < MTP_WINDOW THEN Len(times) ELSE MTP_WINDOW
        recent == (Len(times) - n + 1)..Len(times)
    IN  CHOOSE x \in {times[i] : i \in recent} :
            /\ Cardinality({i \in recent : times[i] < x}) <= n \div 2
            /\ Cardinality({i \in recent : times[i] <= x}) > n \div 2

MedianTimePast(from) ==
    LET path == Walk(meta, from)
    IN  MedianOf([i \in DOMAIN path |-> meta[path[i]].time])

ExpectedBits(parent) ==
    NEXT_BITS(meta[parent].time - meta[Genesis].time, meta[parent].height)

\* The contextual header checks of add_block, then check_roots and check_pow.
HeaderOk(b, body) ==
    /\ BLOCK[b].bits = ExpectedBits(BLOCK[b].prev)
    /\ BLOCK[b].time > MedianTimePast(BLOCK[b].prev)
    /\ BLOCK[b].size <= MAX_BLOCK_SIZE
    /\ body
    /\ BLOCK[b].pow

NewMeta(b) ==
    LET p == BLOCK[b].prev
    IN  [height   |-> meta[p].height + 1,
         cum_work |-> meta[p].cum_work + WORK(BLOCK[b].bits),
         time     |-> BLOCK[b].time,
         parent   |-> p]

InsertMeta(b) ==
    [x \in DOMAIN meta \cup {b} |-> IF x = b THEN NewMeta(b) ELSE meta[x]]

\* apply_chain: replay every block of a chain from an empty UTXO map.
ReplayStep(acc, b, h) ==
    LET r == ValidateBlockTxs(BLOCK[b].txs, h, acc.utxos)
    IN  IF acc.ok /\ r.ok /\ acc.supply + r.minted <= MAX_U64
        THEN [ok     |-> TRUE,
              utxos  |-> r.utxos,
              supply |-> acc.supply + r.minted]
        ELSE [acc EXCEPT !.ok = FALSE]

ReplayRun(chain) ==
    LET run[i \in 0..Len(chain)] ==
            IF i = 0 THEN [ok |-> TRUE, utxos |-> EmptyUtxos, supply |-> 0]
                     ELSE ReplayStep(run[i - 1], chain[i], i - 1)
    IN  run

ApplyChain(chain) == ReplayRun(chain)[Len(chain)]

-----------------------------------------------------------------------------
Returns(b, body, res) == ret' = [block |-> b, body |-> body, res |-> res]

\* ChainState::new on a valid genesis block.
Init ==
    /\ all = {Genesis}
    /\ meta = [x \in {Genesis} |->
                 [height   |-> 0,
                  cum_work |-> WORK(BLOCK[Genesis].bits),
                  time     |-> BLOCK[Genesis].time,
                  parent   |-> Zero]]
    /\ active = <<Genesis>>
    /\ LET r == ApplyChain(<<Genesis>>)
       IN  r.ok /\ utxos = r.utxos /\ supply = r.supply
    /\ ret = [block |-> Genesis, body |-> TRUE, res |-> "active"]

\* Early returns before anything is inserted.
RejectDuplicate(b, body) ==
    /\ b \in all
    /\ Returns(b, body, "duplicate")
    /\ UNCHANGED <<all, meta, active, utxos, supply>>

RejectUnknownParent(b, body) ==
    /\ b \notin all
    /\ BLOCK[b].prev \notin DOMAIN meta
    /\ Returns(b, body, "unknown_parent")
    /\ UNCHANGED <<all, meta, active, utxos, supply>>

RejectHeader(b, body) ==
    /\ b \notin all
    /\ BLOCK[b].prev \in DOMAIN meta
    /\ ~HeaderOk(b, body)
    /\ Returns(b, body, "invalid")
    /\ UNCHANGED <<all, meta, active, utxos, supply>>

\* The header is valid: the block goes into meta and all.
Inserts(b, body) ==
    /\ b \notin all
    /\ BLOCK[b].prev \in DOMAIN meta
    /\ HeaderOk(b, body)
    /\ meta[BLOCK[b].prev].height < MAX_HEIGHT

\* The insertion of a valid header, and its undoing when the block's
\* transactions turn out invalid: neither leaves all and meta apart.
InsertBlock(b) ==
    /\ all' = all \cup {b}
    /\ meta' = InsertMeta(b)

DiscardBlock(b) ==
    /\ all' = all
    /\ meta' = meta

\* Faulty variants: the longest chain wins; the latest of equal ones wins.
OutweighsByHeight(b) == NewMeta(b).height > Height
OutweighsOnTie(b)    == NewMeta(b).cum_work >= TipWork

\* The fork choice: more cumulative work than the tip.
Outweighs(b) == NewMeta(b).cum_work > TipWork

\* The block extends the tip: the fast path applies.
OnTip(b) == BLOCK[b].prev = Tip

\* A faulty variant: the new block is checked as if it had its parent's height.
ValidateOnTipWrongHeight(b) == ValidateBlockTxs(BLOCK[b].txs, Height, utxos)

\* The fast path validates against a clone of the current UTXO map.
ValidateOnTip(b) == ValidateBlockTxs(BLOCK[b].txs, NewMeta(b).height, utxos)

\* Not more work than the tip: kept, its transactions not looked at.
KeepSideBlock(b, body) ==
    /\ Inserts(b, body)
    /\ ~Outweighs(b)
    /\ InsertBlock(b)
    /\ Returns(b, body, "side")
    /\ UNCHANGED <<active, utxos, supply>>

\* A faulty variant: the full subsidy counts, claimed or not.
SupplyCountsSubsidy(r) == supply + BLOCK_REWARD[Height + 1]

SupplyAfter(r) == supply + r.minted

\* The fast path.  A supply overflow returns early and leaves the block in
\* meta and all; a validation error takes it out again.
ExtendTip(b, body) ==
    /\ Inserts(b, body)
    /\ Outweighs(b)
    /\ OnTip(b)
    /\ LET r == ValidateOnTip(b)
       IN  IF ~r.ok
           THEN /\ DiscardBlock(b)
                /\ Returns(b, body, "invalid")
                /\ UNCHANGED <<active, utxos, supply>>
           ELSE /\ InsertBlock(b)
                /\ IF SupplyAfter(r) > MAX_U64
                   THEN /\ Returns(b, body, "overflow")
                        /\ UNCHANGED <<active, utxos, supply>>
                   ELSE /\ active' = Append(active, b)
                        /\ utxos' = r.utxos
                        /\ supply' = SupplyAfter(r)
                        /\ Returns(b, body, "active")

\* More work than the tip on another branch: replay that branch from genesis.
\* On an error only the new block is removed; its ancestors stay.
Reorg(b, body) ==
    /\ Inserts(b, body)
    /\ Outweighs(b)
    /\ ~OnTip(b)
    /\ LET chain == Walk(InsertMeta(b), b)
           r     == ApplyChain(chain)
       IN  IF ~r.ok
           THEN /\ DiscardBlock(b)
                /\ Returns(b, body, "invalid")
                /\ UNCHANGED <<active, utxos, supply>>
           ELSE /\ InsertBlock(b)
                /\ active' = chain
                /\ utxos' = r.utxos
                /\ supply' = r.supply
                /\ Returns(b, body, "active")

AddBlock(b, body) ==
    \/ RejectDuplicate(b, body)
    \/ RejectUnknownParent(b, body)
    \/ RejectHeader(b, body)
    \/ KeepSideBlock(b, body)
    \/ ExtendTip(b, body)
    \/ Reorg(b, body)

Next == \E b \in Blocks, body \in BOOLEAN : AddBlock(b, body)

Spec == Init /\ [][Next]_chainVars

-----------------------------------------------------------------------------
(***************************************************************************)
(* Properties.                                                             *)
(***************************************************************************)
Metas == [height : 0..MAX_HEIGHT, cum_work : Nat, time : Nat,
          parent : Blocks \cup {Zero}]

\* Type invariant.
TypeOK ==
    /\ all \subseteq Blocks
    /\ DOMAIN meta \subseteq Blocks /\ \A b \in DOMAIN meta : meta[b] \in Metas
    /\ active \in Seq(Blocks) /\ Len(active) \in 1..(MAX_HEIGHT + 1)
    /\ IsUtxoMap(utxos)
    /\ supply \in 0..MAX_U64
    /\ ret \in [block : Blocks, body : BOOLEAN,
               res : {"duplicate", "unknown_parent", "invalid", "side",
                      "overflow", "active"}]

\* A tree of blocks s rooted at genesis, with its metadata m.
IsTree(m, s) ==
    /\ DOMAIN m = s
    /\ Genesis \in s
    /\ m[Genesis].height = 0
    /\ \A b \in s \ {Genesis} :
          /\ BLOCK[b].prev \in s
          /\ m[b] = [height   |-> m[BLOCK[b].prev].height + 1,
                     cum_work |-> m[BLOCK[b].prev].cum_work + WORK(BLOCK[b].bits),
                     time     |-> BLOCK[b].time,
                     parent   |-> BLOCK[b].prev]

\* `all` and `meta` hold the same blocks, closed under parents, with heights
\* and cumulative work counted from genesis, also after a failed reorg took
\* the new block out of both.
KnownTree == IsTree(meta, all)

\* `active` is the path of known blocks from genesis to the tip, indexed by
\* height, whichever way (fast path or reorg) it came about.
ActiveIsPath ==
    /\ active[1] = Genesis
    /\ \A i \in DOMAIN active :
          /\ active[i] \in all
          /\ meta[active[i]].height = i - 1
          /\ i > 1 => BLOCK[active[i]].prev = active[i - 1]

\* Fork choice: no known block, on any branch, has more cumulative work than
\* the tip.  The early return on a supply overflow would break this.
TipHasMostWork == \A b \in all : meta[b].cum_work <= TipWork

\* The incremental UTXO map and supply are what replaying the active chain
\* from genesis gives: fast path and reorg agree.
LedgerIsReplay ==
    ApplyChain(active) = [ok |-> TRUE, utxos |-> utxos, supply |-> supply]

ActiveTxs == UNION {{<<i, k>> : k \in DOMAIN BLOCK[active[i]].txs} :
                      i \in DOMAIN active}
ActiveTx(p) == BLOCK[active[p[1]]].txs[p[2]]

\* The UTXO map holds exactly the outputs created and not spent on the active
\* chain, no output is spent by two of its transactions, and together they
\* never exceed the recorded supply: nothing creates value on the way.
UtxosAreTheUnspent ==
    /\ DOMAIN utxos = (UNION {Created(ActiveTx(p)) : p \in ActiveTxs})
                         \ (UNION {Spent(ActiveTx(p)) : p \in ActiveTxs})
    /\ \A p, q \in ActiveTxs :
          p # q => Spent(ActiveTx(p)) \cap Spent(ActiveTx(q)) = {}
    /\ UtxoTotal(utxos) <= supply

\* No inflation: what add_block records as minted stays within the emission
\* schedule of the chain's height, fees paid or burnt along the way.
SupplyWithinSchedule == supply <= Issued[Height]

\* On the active chain a coinbase output is spent only COINBASE_MATURITY
\* blocks later, a timelocked output only from its height on, and every spend
\* carries the owner's signature.
SpendsRespectLocks ==
    \A p, q \in ActiveTxs : \A i \in DOMAIN ActiveTx(q).inputs :
        LET op == ActiveTx(q).inputs[i]
            o  == ActiveTx(p).outputs[op[2]]
        IN  op \in Created(ActiveTx(p)) =>
              /\ p[2] = 1 => q[1] >= p[1] + COINBASE_MATURITY
              /\ q[1] - 1 >= o.lock.height
              /\ ActiveTx(q).witnesses[i].pubkey = o.lock.pkh

\* The branch ending in b, read off the block universe itself.
TreePath[b \in Blocks] ==
    IF BLOCK[b].prev \in Blocks THEN Append(TreePath[BLOCK[b].prev], b) ELSE <<b>>

\* A block commits to its parent's hash: no cycles, so the recursion ends.
ASSUME TreePathAssumption ==
    \A b \in Blocks :
        TreePath[b] = IF BLOCK[b].prev \in Blocks
                      THEN Append(TreePath[BLOCK[b].prev], b) ELSE <<b>>

\* A delivered block that is rejected was wrong itself or sits on a branch
\* whose transactions do not replay: no valid block is ever turned away.
RejectedOnlyIfInvalid ==
    ret.res = "invalid" =>
        \/ ~HeaderOk(ret.block, ret.body)
        \/ ~ApplyChain(TreePath[ret.block]).ok

\* add_block returns Ok(true) only for a strict increase of the tip's work:
\* between branches of equal work the first one seen stays.
TipOnlyGains ==
    [][active' # active => /\ meta'[active'[Len(active')]].cum_work > TipWork
                           /\ ret'.res = "active"
                           /\ ret'.block = active'[Len(active')]]_chainVars
=============================================================================
