------------------------------- MODULE Wallet -------------------------------
(***************************************************************************)
(* Payments of one wallet: build_send of wallet/src/lib.rs, the light      *)
(* wallet that talks to a node's RPC (wallet-cli/src), and the local       *)
(* `sump wallet send` that reads the chain file (cli/src/wallet.rs).       *)
(*                                                                         *)
(* A session is one send: fetch the wallet's outputs, build and sign, hand *)
(* the transaction over.  The wallet GUI runs a thread per request, so     *)
(* sessions interleave with each other and with blocks.  The node is what  *)
(* sessions see of it: its UTXO map, its mempool, the transaction files    *)
(* and the chain file, a snapshot taken every SAVE_INTERVAL blocks.        *)
(* A transaction id commits to inputs and outputs: <<"tx", inputs,         *)
(* outputs>>, or <<"cb", height>> for a coinbase.  Transactions below      *)
(* height 0 of the model have the ids <<"old", n>>.                        *)
(***************************************************************************)
EXTENDS Ledger, FiniteSets, SequencesExt

CONSTANTS
    Sessions,
    VIA,                \* session -> "rpc" (light wallet) or "cli"
    Payments,           \* what can be asked for: [to, amount, fee], to = (scheme, pkh)
    OwnedKeys,          \* the (scheme, pkh) pairs of the wallet
    ChangeKey,          \* the wallet's index-0 ML-DSA key
    Miners,             \* keys that coinbases pay
    START,              \* the UTXO map at height 0
    INPUT_SIZE,         \* size of an input with its witness
    MIN_RELAY_FEE, MIN_FEE_PER_BYTE,
    SAVE_INTERVAL

ASSUME WalletAssumption ==
    /\ VIA \in [Sessions -> {"rpc", "cli"}]
    /\ \A p \in Payments : /\ p.amount \in Nat /\ p.fee \in Nat
                           /\ p.to \in {"MlDsa", "SlhDsa"} \X Keys
    /\ <<"MlDsa", ChangeKey>> \in OwnedKeys
    /\ OwnedKeys \subseteq {"MlDsa", "SlhDsa"} \X Keys
    /\ Miners \subseteq Keys
    /\ INPUT_SIZE \in Nat /\ SAVE_INTERVAL \in Nat \ {0}

\* The coins at height 0.
ASSUME StartAssumption ==
    /\ IsFiniteSet(DOMAIN START) /\ START = [op \in DOMAIN START |-> START[op]]
    /\ \A op \in DOMAIN START : START[op] \in Utxos
    /\ DOMAIN START \subseteq ({"old"} \X Nat) \X Nat

\* emission.rs keeps all coins there will ever be below SUPPLY_CAP, a u64.
ASSUME CoinsAssumption == UtxoTotal(START) + Issued[MAX_HEIGHT] <= MAX_U64

VARIABLES
    height, utxos,   \* the node's chain
    saved,           \* the chain file: [height, utxos]
    pool,            \* the node's mempool
    files,           \* queued transaction files
    session,         \* session -> [stage, ...]
    confirmed,       \* transactions of the wallet in blocks
    earned           \* stanzas the wallet got from coinbases

vars  == <<height, utxos, saved, pool, files, session, confirmed, earned>>
chain == <<height, utxos, saved, confirmed, earned>>

-----------------------------------------------------------------------------
Owns(u) == <<u.output.lock.scheme, u.output.lock.pkh>> \in OwnedKeys

\* owned_utxos: the wallet's outputs of a chain state, as they are.
OwnedUtxos(map) == [op \in {x \in DOMAIN map : Owns(map[x])} |-> map[op]]

\* rpc_utxos writes scheme and pkh of a lock, fetch_utxos makes it a P2pkh.
OverRpc(map) == [op \in DOMAIN map |-> [map[op] EXCEPT !.output.lock.height = 0]]

\* A faulty variant: maturity is left to the node.
SpendableImmature(u, next) == next >= u.output.lock.height

Spendable(u, next) ==
    /\ u.coinbase => next >= u.height + COINBASE_MATURITY
    /\ next >= u.output.lock.height

Amounts(map, ops) == SumFunction([op \in ops |-> map[op].output.amount])

\* balances(..).0 and balances_for(..).0
Balance(map, next) == Amounts(map, {op \in DOMAIN map : Spendable(map[op], next)})

\* A faulty variant: the wallet looks for one coin that covers the need.
SelectionsOneCoin(map, next, need) ==
    LET coins == {op \in DOMAIN map : Spendable(map[op], next)}
    IN  {{op} : op \in {x \in coins : \A y \in coins :
                             map[x].output.amount >= map[y].output.amount}}

\* Coins are taken largest first until they cover the need; equal coins come
\* in the arbitrary order of the UTXO map.
Selections(map, next, need) ==
    LET coins  == {op \in DOMAIN map : Spendable(map[op], next)}
        amt(x) == map[x].output.amount
    IN  {s \in SUBSET coins :
           /\ \A x \in s, y \in coins \ s : amt(x) >= amt(y)
           /\ \A x \in s : (\A y \in s : amt(x) <= amt(y)) => Amounts(map, s \ {x}) < need
           /\ Amounts(map, s) >= need \/ s = coins}

Output(amount, scheme, key) ==
    [amount |-> amount, lock |-> [scheme |-> scheme, pkh |-> key, height |-> 0]]

\* A faulty variant: what is left over becomes part of the fee.
OutputsKeepChange(pay, change) == <<Output(pay.amount, pay.to[1], pay.to[2])>>

\* The payment, and the change if there is any.
PaymentOutputs(pay, change) ==
    <<Output(pay.amount, pay.to[1], pay.to[2])>>
      \o (IF change > 0 THEN <<Output(change, "MlDsa", ChangeKey)>> ELSE <<>>)

\* The orders in which selected coins become inputs.
Orders(map, selected) ==
    {ins \in SetToSeqs(selected) : \A i, j \in DOMAIN ins :
        i < j => map[ins[i]].output.amount >= map[ins[j]].output.amount}

\* The signed transaction over selected coins.  Each signature is made over
\* the output as the wallet knows it.
Signed(pay, map, ins) ==
    LET change  == Amounts(map, {ins[i] : i \in DOMAIN ins}) - pay.amount - pay.fee
        outs    == PaymentOutputs(pay, change)
        body    == [txid |-> <<"tx", ins, outs>>, inputs |-> ins]
        coin(i) == map[ins[i]].output
        sig(i)  == [scheme |-> coin(i).lock.scheme, pubkey |-> coin(i).lock.pkh,
                    msg |-> Sighash(body, i, coin(i))]
    IN  [txid |-> body.txid, inputs |-> ins, outputs |-> outs, data |-> NoData,
         witnesses |-> [i \in DOMAIN ins |-> [pubkey |-> coin(i).lock.pkh,
                                              sig |-> sig(i)]]]

-----------------------------------------------------------------------------
Idle              == [stage |-> "idle"]
Done(pay, result) == [stage |-> "done", pay |-> pay, result |-> result]
Becomes(s, r)     == session' = [session EXCEPT ![s] = r]

\* fetch_utxos asks the node; `wallet send` loads the chain file.
Fetch(s, pay) ==
    /\ session[s] = Idle
    /\ LET rpc  == VIA[s] = "rpc"
           map  == IF rpc THEN OverRpc(OwnedUtxos(utxos)) ELSE OwnedUtxos(saved.utxos)
           next == IF rpc THEN height + 1 ELSE saved.height + 1
       IN  Becomes(s, [stage |-> "fetched", pay |-> pay, map |-> map, next |-> next])
    /\ UNCHANGED <<chain, pool, files>>

\* build_send: an overflow, too few coins, or a signed transaction.
Build(s) ==
    /\ session[s].stage = "fetched"
    /\ LET pay  == session[s].pay
           map  == session[s].map
           need == pay.amount + pay.fee
       IN  IF need > MAX_U64 THEN Becomes(s, Done(pay, "overflow"))
           ELSE \E sel \in Selections(map, session[s].next, need) :
                  IF Amounts(map, sel) < need
                  THEN Becomes(s, [session[s] EXCEPT !.stage = "short"])
                  ELSE \E ins \in Orders(map, sel) :
                         Becomes(s, [stage |-> "built", pay |-> pay, map |-> map,
                                     next |-> session[s].next,
                                     tx |-> Signed(pay, map, ins)])
    /\ UNCHANGED <<chain, pool, files>>

\* Mempool::insert, as in NodeState, without the cap on its size.
Need(tx) == LET perByte == Len(tx.inputs) * INPUT_SIZE * MIN_FEE_PER_BYTE
            IN  IF perByte > MIN_RELAY_FEE THEN perByte ELSE MIN_RELAY_FEE

Verdict(tx) ==
    IF tx \in pool THEN "duplicate"
    ELSE IF \E t \in pool : Spent(t) \cap Spent(tx) # {} THEN "conflict"
    ELSE IF ~TxOk(tx, height + 1, utxos) THEN "invalid"
    ELSE IF Fee(tx, utxos) < Need(tx) THEN "low_fee"
    ELSE "ok"

Insert(tx) == pool' = IF Verdict(tx) = "ok" THEN pool \cup {tx} ELSE pool

\* The light wallet submits; the answer is the mempool's verdict.
Submit(s) ==
    /\ session[s].stage = "built" /\ VIA[s] = "rpc"
    /\ Insert(session[s].tx)
    /\ Becomes(s, [stage |-> "sent", pay |-> session[s].pay, tx |-> session[s].tx,
                   result |-> Verdict(session[s].tx)])
    /\ UNCHANGED <<chain, files>>

\* `wallet send` validates against the state it loaded and writes a file.
Queue(s) ==
    /\ session[s].stage = "built" /\ VIA[s] = "cli"
    /\ LET tx == session[s].tx
       IN  IF TxOk(tx, session[s].next, session[s].map)
           THEN /\ files' = files \cup {tx}
                /\ Becomes(s, [stage |-> "sent", pay |-> session[s].pay, tx |-> tx,
                               result |-> "queued"])
           ELSE /\ Becomes(s, Done(session[s].pay, "invalid"))
                /\ UNCHANGED files
    /\ UNCHANGED <<chain, pool>>

\* The bridge of `node run` gives a file to the mempool.
Bridge(tx) ==
    /\ tx \in files
    /\ Insert(tx)
    /\ files' = IF Verdict(tx) \in {"conflict", "invalid"} THEN files ELSE files \ {tx}
    /\ UNCHANGED <<chain, session>>

\* The spends of a block, in any order: they do not depend on each other.
ApplyAll(ts, h, map) == FoldSet(LAMBDA t, m : ApplyTx(t, h, FALSE, m), map, ts)

\* A block with some of the pooled transactions; the chain file follows at
\* every SAVE_INTERVAL-th height.
MineBlock(ts, miner) ==
    /\ height < MAX_HEIGHT
    /\ LET h      == height + 1
           reward == BLOCK_REWARD[h] + SumFunction([t \in ts |-> Fee(t, utxos)])
           cb     == [txid |-> <<"cb", h>>, inputs |-> <<>>,
                      outputs |-> <<Output(reward, "MlDsa", miner)>>]
       IN  /\ height' = h
           /\ utxos' = ApplyTx(cb, h, TRUE, ApplyAll(ts, h, utxos))
           /\ earned' = IF <<"MlDsa", miner>> \in OwnedKeys THEN earned + reward
                        ELSE earned
           /\ saved' = IF h % SAVE_INTERVAL = 0 THEN [height |-> h, utxos |-> utxos']
                       ELSE saved
    /\ confirmed' = confirmed \cup ts
    /\ pool' = {t \in pool \ ts : TxOk(t, height' + 1, utxos')}
    /\ UNCHANGED <<files, session>>

Init ==
    /\ height = 0 /\ utxos = START
    /\ saved = [height |-> 0, utxos |-> START]
    /\ pool = {} /\ files = {} /\ confirmed = {}
    /\ earned = 0
    /\ session = [s \in Sessions |-> Idle]

Next ==
    \/ \E s \in Sessions, pay \in Payments : Fetch(s, pay)
    \/ \E s \in Sessions : Build(s) \/ Submit(s) \/ Queue(s)
    \/ \E tx \in files : Bridge(tx)
    \/ \E ts \in SUBSET pool, m \in Miners : MineBlock(ts, m)

Spec == Init /\ [][Next]_vars

-----------------------------------------------------------------------------
(***************************************************************************)
(* Properties.                                                             *)
(***************************************************************************)
Built == {s \in Sessions : session[s].stage = "built"}
Sent  == {s \in Sessions : session[s].stage = "sent"}

\* The state of the chain a session's node (or chain file) has now.
Behind(s) == IF VIA[s] = "rpc" THEN [height |-> height, utxos |-> utxos] ELSE saved

\* No wallet behind the RPC has a coin that opens at a height: the answer of
\* rpc_utxos does not carry it (run `timelock`).
LocksReadable ==
    (\E s \in Sessions : VIA[s] = "rpc") =>
        \A op \in DOMAIN START : Owns(START[op]) => START[op].output.lock.height = 0

\* What the wallet builds is a valid transaction of the next block, as long as
\* the chain it asked about has not moved: it selects only mature, unlocked
\* coins of its own and signs what check_tx verifies.
BuiltIsValid ==
    \A s \in Built :
        /\ session[s].pay.amount > 0
        /\ session[s].next = Behind(s).height + 1
        => TxOk(session[s].tx, Behind(s).height + 1, Behind(s).utxos)

\* The balance the wallet shows is what it can pay with: a payment it covers
\* is built, one it does not cover is refused for lack of funds.
BalanceIsPayable ==
    \A s \in Sessions :
        LET covered == session[s].pay.amount + session[s].pay.fee
                         <= Balance(session[s].map, session[s].next)
        IN  /\ session[s].stage = "short" => ~covered
            /\ session[s].stage = "built" => covered

\* What a payment takes from the wallet: one to an own key stays with it.
Leaves(pay) == (IF pay.to \in OwnedKeys THEN 0 ELSE pay.amount) + pay.fee

Costs == {[tx |-> session[s].tx, cost |-> Leaves(session[s].pay)] :
            s \in {x \in Sent : session[x].tx \in confirmed}}

\* The wallet's money: what it owned and earned, less what each payment takes
\* from it that made it into a block, whatever sessions ran side by side, and
\* however old the coins were that they saw.
HoldingsExact ==
    Amounts(utxos, DOMAIN OwnedUtxos(utxos))
        = Amounts(START, DOMAIN OwnedUtxos(START)) + earned
            - SumFunction([c \in Costs |-> c.cost])
=============================================================================
