------------------------------- MODULE MCNode -------------------------------
(***************************************************************************)
(* A block universe for NodeState closed under mining.  A hash is the path *)
(* of <<miner, transactions>> pairs from genesis, so it commits to the     *)
(* whole chain below it; coinbase ids commit to miner, height and fees.    *)
(***************************************************************************)
EXTENDS NodeState, SequencesExt

Lock(key)   == [scheme |-> "MlDsa", pkh |-> key, height |-> 0]
Out(n, key) == [amount |-> n, lock |-> Lock(key)]

CoinbaseId(miner, h, fees) == <<"cb", miner, h, fees>>
UserId(name)               == <<"tx", name, 0, 0>>

Coinbase(miner, h, fees) ==
    [txid |-> CoinbaseId(miner, h, fees), inputs |-> <<>>,
     outputs |-> <<Out(BLOCK_REWARD[h] + fees, miner)>>, data |-> h,
     witnesses |-> <<>>]

\* A one-input payment from `key`, who owns n there, paying fee.
Pay(name, op, n, key, fee) ==
    [txid |-> UserId(name), inputs |-> <<op>>, outputs |-> <<Out(n - fee, "me")>>,
     data |-> NoData,
     witnesses |-> <<[pubkey |-> key,
                      sig |-> [scheme |-> "MlDsa", pubkey |-> key,
                               msg |-> <<UserId(name), 1, Out(n, key)>>]]>>]

\* a and b spend the same coin, c the change of a, d another coinbase; e pays
\* no fee.  a and d do not fit the pool together.
PAYMENT ==
    [a |-> Pay("a", <<CoinbaseId("me", 1, 0), 1>>, 6, "me", 2),
     b |-> Pay("b", <<CoinbaseId("me", 1, 0), 1>>, 6, "me", 1),
     c |-> Pay("c", <<UserId("a"), 1>>, 4, "me", 1),
     d |-> Pay("d", <<CoinbaseId("me", 2, 0), 1>>, 5, "me", 2),
     e |-> Pay("e", <<CoinbaseId("me", 2, 0), 1>>, 5, "me", 0)]

FEE      == [a |-> 2, b |-> 1, c |-> 1, d |-> 2, e |-> 0]
SIZE     == [a |-> 2, b |-> 1, c |-> 1, d |-> 2, e |-> 1]
MCReward == [h \in 0..3 |-> <<8, 6, 5, 4>>[h + 1]]

SumOver(f, names) == SumFunction([n \in names |-> f[n]])

\* Blocks of other miners: a branch of their own that overtakes at height 3,
\* a fork from this node's first block that does, and a block that confirms b.
Me              == <<"me", {}>>
Peer            == <<"peer", {}>>
ForeignBranch   == {<<Peer>>, <<Peer, Peer>>, <<Peer, Peer, Peer>>}
ForeignFork     == {<<Me, Peer>>, <<Me, Peer, Peer>>}
ForeignConflict == {<<Me, <<"peer", {"b"}>>>>}
MCForeign       == ForeignBranch \cup ForeignFork \cup ForeignConflict

\* What a block at each height may hold besides its coinbase.
Bodies == <<{{}}, {{}, {"a"}, {"b"}, {"a", "b"}},
            {{}, {"a"}, {"b"}, {"c"}, {"d"}, {"a", "d"}, {"b", "d"}, {"c", "d"}}>>

\* Every path that goes through other miners' blocks first, then its own.
Level[h \in 0..3] ==
    IF h = 0 THEN {<<>>}
    ELSE {b \in {Append(p, <<m, ts>>) : p \in Level[h - 1], m \in {"me", "peer"},
                                        ts \in Bodies[h]} :
            b[h][1] = "peer" => b \in MCForeign}

MCBlocks  == UNION {Level[h] : h \in 0..3}
MCGenesis == <<>>
MCZero    == <<<<"zero", {}>>>>

MCBLOCK ==
    [b \in MCBlocks |->
       LET h    == Len(b)
           last == IF h = 0 THEN <<"zero", {}>> ELSE b[h]
       IN  [prev |-> IF h = 0 THEN MCZero ELSE SubSeq(b, 1, h - 1),
            time |-> <<10, 11, 12, 12>>[h + 1],
            bits |-> 1, pow |-> TRUE,
            size |-> 1 + SumOver(SIZE, last[2]),
            txs  |-> <<Coinbase(last[1], h, SumOver(FEE, last[2]))>>
                       \o SetToSeq({PAYMENT[n] : n \in last[2]})]]

MCTxSize(tx) == IF tx.txid[1] = "cb" THEN 1 ELSE SIZE[tx.txid[2]]

MCUserTxs == Range(PAYMENT)
MCTxs     == MCUserTxs \cup {Coinbase(m, h, f) : m \in {"zero", "me", "peer"},
                                                h \in 0..3, f \in 0..4}
MCTxIds   == {tx.txid : tx \in MCTxs}

MCNextBits(dt, h) == 1
MCWork(bits)      == 1

\* A crowded mempool under a fork; crashes with two queued transactions that
\* do not fit the mempool together, and with another branch; a queued
\* transaction under a fork, and one alone.
Crowd  == [submitted |-> MCUserTxs, queueable |-> {},
           foreign |-> ForeignFork \cup ForeignConflict, crashes |-> 0]
Pair   == [submitted |-> {}, queueable |-> {PAYMENT["a"], PAYMENT["d"]},
           foreign |-> {}, crashes |-> 1]
Branch == [submitted |-> {}, queueable |-> {},
           foreign |-> {<<Peer>>, <<Peer, Peer>>}, crashes |-> 1]
Rivals == [submitted |-> {}, queueable |-> {PAYMENT["a"]},
           foreign |-> ForeignFork \cup ForeignConflict, crashes |-> 0]
Alone  == [submitted |-> {}, queueable |-> {PAYMENT["a"]}, foreign |-> {}, crashes |-> 1]

AllWorlds == {Crowd, Pair, Branch, Rivals}
Lone      == {Alone}
=============================================================================
