------------------------------- MODULE Ledger -------------------------------
(***************************************************************************)
(* Transaction-level consensus rules of crates/node/src/chain.rs: check_tx *)
(* and validate_block_txs, over the UTXO map they read and update.         *)
(*                                                                         *)
(* A transaction is a record                                               *)
(*   [txid, inputs, outputs, data, witnesses]                              *)
(* where inputs is a sequence of outpoints <<txid, vout>> (vout counts     *)
(* from 1 here), outputs a sequence of [amount, lock], data the height that*)
(* the coinbase data starts with (NoData when it is empty, BadData when it *)
(* is malformed), and witnesses a sequence of [pubkey, sig].  A lock is    *)
(* [scheme, pkh, height]; height 0 is Lock::P2pkh.  SHA3 is injective      *)
(* here: a txid names one body, a pubkey hash names one key.  A signature  *)
(* is the record of what was signed, so it verifies exactly for the        *)
(* scheme, key and message it was made with.                               *)
(*                                                                         *)
(* Operators named after a defect (TxOkSameInputTwice, ...) are faulty     *)
(* variants of the definition that follows them; no action uses them.      *)
(***************************************************************************)
EXTENDS Integers, Sequences, Functions

CONSTANTS
    MAX_U64,             \* largest u64: checked_add fails above it
    COINBASE_MATURITY,   \* params.coinbase_maturity
    MAX_HEIGHT,          \* bound of the model: heights considered
    BLOCK_REWARD,        \* emission::block_reward, a function of the height
    TxIds,               \* transaction ids
    Keys,                \* public keys (and their hashes)
    Txs                  \* the transactions that can occur

ASSUME LedgerAssumption ==
    /\ MAX_U64 \in Nat
    /\ COINBASE_MATURITY \in Nat
    /\ MAX_HEIGHT \in Nat
    /\ BLOCK_REWARD \in [0..MAX_HEIGHT -> Nat]

\* Subsidies of heights 0..h together.
Issued[h \in 0..MAX_HEIGHT] ==
    IF h = 0 THEN BLOCK_REWARD[0] ELSE Issued[h - 1] + BLOCK_REWARD[h]

\* emission.rs keeps the sum of all subsidies below SUPPLY_CAP, a u64.
ASSUME SupplyCapAssumption == Issued[MAX_HEIGHT] <= MAX_U64

NoData  == -1
BadData == -2

OutPoints == TxIds \X Nat
Locks     == [scheme : {"MlDsa", "SlhDsa"}, pkh : Keys, height : Nat]
Outputs   == [amount : Nat, lock : Locks]
Utxos     == [output : Outputs, height : Nat, coinbase : BOOLEAN]

ASSUME TxsAssumption ==
    \A tx \in Txs :
        /\ tx.txid \in TxIds
        /\ tx.inputs \in Seq(OutPoints)
        /\ tx.outputs \in Seq(Outputs)
        /\ tx.data \in {NoData, BadData} \cup Nat
        /\ tx = [txid |-> tx.txid, inputs |-> tx.inputs, outputs |-> tx.outputs,
                 data |-> tx.data, witnesses |-> tx.witnesses]
        /\ tx.witnesses = [i \in 1..Len(tx.witnesses) |->
               [pubkey |-> tx.witnesses[i].pubkey, sig |-> tx.witnesses[i].sig]]

\* TxBody::txid hashes the encoded body.
ASSUME TxidAssumption ==
    \A t, u \in Txs : t.txid = u.txid =>
        t.inputs = u.inputs /\ t.outputs = u.outputs /\ t.data = u.data

IsUtxoMap(u) ==
    /\ DOMAIN u \subseteq OutPoints
    /\ u = [op \in DOMAIN u |-> u[op]]
    /\ \A op \in DOMAIN u : u[op] \in Utxos

EmptyUtxos == [op \in {} |-> op]

UtxoTotal(u) == SumFunction([op \in DOMAIN u |-> u[op].output.amount])

(***************************************************************************)
(* Sum of a sequence of naturals.  The code adds with checked_add; since   *)
(* amounts are not negative, some partial sum overflows iff the total does.*)
(***************************************************************************)
Sums(s) ==
    LET sum[i \in 0..Len(s)] == IF i = 0 THEN 0 ELSE sum[i - 1] + s[i]
    IN  sum

Total(s) == Sums(s)[Len(s)]

Spent(tx)   == {tx.inputs[i] : i \in DOMAIN tx.inputs}
Created(tx) == {<<tx.txid, v>> : v \in DOMAIN tx.outputs}

IsCoinbase(tx) == tx.inputs = <<>>

\* TxBody::sighash commits to the body, the input index and the spent output.
Sighash(tx, i, output) == <<tx.txid, i, output>>

Verify(scheme, pubkey, msg, sig) ==
    sig = [scheme |-> scheme, pubkey |-> pubkey, msg |-> msg]

OutTotal(tx)       == Total([i \in DOMAIN tx.outputs |-> tx.outputs[i].amount])
InTotal(tx, utxos) ==
    Total([i \in DOMAIN tx.inputs |-> utxos[tx.inputs[i]].output.amount])
Fee(tx, utxos)     == InTotal(tx, utxos) - OutTotal(tx)

\* A faulty variant: maturity is reached one block early.
InputOkOneEarly(tx, i, h, utxos) ==
    /\ tx.inputs[i] \in DOMAIN utxos
    /\ LET u == utxos[tx.inputs[i]]
           w == tx.witnesses[i]
       IN  /\ u.coinbase => h + 1 >= u.height + COINBASE_MATURITY
           /\ h >= u.output.lock.height
           /\ w.pubkey = u.output.lock.pkh
           /\ Verify(u.output.lock.scheme, w.pubkey,
                     Sighash(tx, i, u.output), w.sig)

\* One iteration of check_tx's input loop: input i may be spent at height h.
InputOk(tx, i, h, utxos) ==
    /\ tx.inputs[i] \in DOMAIN utxos
    /\ LET u == utxos[tx.inputs[i]]
           w == tx.witnesses[i]
       IN  /\ u.coinbase => h >= u.height + COINBASE_MATURITY
           /\ h >= u.output.lock.height
           /\ w.pubkey = u.output.lock.pkh
           /\ Verify(u.output.lock.scheme, w.pubkey,
                     Sighash(tx, i, u.output), w.sig)

\* A faulty variant: an input may be listed twice.
TxOkSameInputTwice(tx, h, utxos) ==
    /\ tx.inputs # <<>> /\ tx.outputs # <<>>
    /\ tx.data = NoData
    /\ Len(tx.witnesses) = Len(tx.inputs)
    /\ \A i \in DOMAIN tx.inputs : InputOk(tx, i, h, utxos)
    /\ InTotal(tx, utxos) <= MAX_U64
    /\ \A i \in DOMAIN tx.outputs : tx.outputs[i].amount # 0
    /\ OutTotal(tx) <= MAX_U64
    /\ OutTotal(tx) <= InTotal(tx, utxos)

\* check_tx returns Ok(Fee(tx, utxos)).
TxOk(tx, h, utxos) ==
    /\ tx.inputs # <<>> /\ tx.outputs # <<>>
    /\ tx.data = NoData
    /\ Len(tx.witnesses) = Len(tx.inputs)
    /\ \A i, j \in DOMAIN tx.inputs : i # j => tx.inputs[i] # tx.inputs[j]
    /\ \A i \in DOMAIN tx.inputs : InputOk(tx, i, h, utxos)
    /\ InTotal(tx, utxos) <= MAX_U64
    /\ \A i \in DOMAIN tx.outputs : tx.outputs[i].amount # 0
    /\ OutTotal(tx) <= MAX_U64
    /\ OutTotal(tx) <= InTotal(tx, utxos)

\* A faulty variant: an output forgets the height it was created at.
ApplyTxNoHeight(tx, h, cb, utxos) ==
    [op \in (DOMAIN utxos \ Spent(tx)) \cup Created(tx) |->
        IF op \in Created(tx)
        THEN [output |-> tx.outputs[op[2]], height |-> IF cb THEN h ELSE -1,
              coinbase |-> cb]
        ELSE utxos[op]]

\* Remove the inputs of tx from the UTXO map and insert its outputs.
ApplyTx(tx, h, cb, utxos) ==
    [op \in (DOMAIN utxos \ Spent(tx)) \cup Created(tx) |->
        IF op \in Created(tx)
        THEN [output |-> tx.outputs[op[2]], height |-> h, coinbase |-> cb]
        ELSE utxos[op]]

\* The coinbase's structure and the duplicate-txid guard, checked first.
BlockShapeOk(txs, h) ==
    /\ txs # <<>> /\ IsCoinbase(txs[1])
    /\ txs[1].witnesses = <<>>
    /\ txs[1].outputs # <<>>
    /\ txs[1].data = h
    /\ \A i, j \in DOMAIN txs : i # j => txs[i].txid # txs[j].txid

(***************************************************************************)
(* The loop over txs[2..]: each transaction is checked against the map its *)
(* predecessors in the block left behind, then applied.                    *)
(***************************************************************************)
SpendStep(acc, tx, h) ==
    IF /\ acc.ok
       /\ ~IsCoinbase(tx)
       /\ TxOk(tx, h, acc.utxos)
       /\ acc.fees + Fee(tx, acc.utxos) <= MAX_U64
    THEN [ok    |-> TRUE,
          utxos |-> ApplyTx(tx, h, FALSE, acc.utxos),
          fees  |-> acc.fees + Fee(tx, acc.utxos)]
    ELSE [acc EXCEPT !.ok = FALSE]

SpendRun(txs, h, utxos) ==
    LET run[i \in 1..Len(txs)] ==
            IF i = 1 THEN [ok |-> TRUE, utxos |-> utxos, fees |-> 0]
                     ELSE SpendStep(run[i - 1], txs[i], h)
    IN  run

SpendTxs(txs, h, utxos) == SpendRun(txs, h, utxos)[Len(txs)]

\* A faulty variant: a coinbase may pay any amount.
CoinbaseUnbounded(cb, fees, h) ==
    /\ \A i \in DOMAIN cb.outputs : cb.outputs[i].amount # 0
    /\ OutTotal(cb) <= MAX_U64

\* The coinbase is non-zero everywhere and pays at most reward plus fees.
CoinbaseOk(cb, fees, h) ==
    /\ \A i \in DOMAIN cb.outputs : cb.outputs[i].amount # 0
    /\ OutTotal(cb) <= MAX_U64
    /\ BLOCK_REWARD[h] + fees <= MAX_U64
    /\ OutTotal(cb) <= BLOCK_REWARD[h] + fees

\* cb_total.saturating_sub(fees)
Minted(cb, fees) == IF OutTotal(cb) >= fees THEN OutTotal(cb) - fees ELSE 0

(***************************************************************************)
(* validate_block_txs: ok says whether it returns Ok(minted); utxos is the *)
(* map it leaves behind (meaningful only when ok).                         *)
(***************************************************************************)
ValidateBlockTxs(txs, h, utxos) ==
    IF ~BlockShapeOk(txs, h)
    THEN [ok |-> FALSE, utxos |-> utxos, minted |-> 0]
    ELSE LET r == SpendTxs(txs, h, utxos)
         IN  [ok     |-> r.ok /\ CoinbaseOk(txs[1], r.fees, h),
              utxos  |-> ApplyTx(txs[1], h, TRUE, r.utxos),
              minted |-> Minted(txs[1], r.fees)]
=============================================================================
