------------------------------- MODULE MCChain -------------------------------
(***************************************************************************)
(* A small block universe for ChainState.  Time runs in units of half the  *)
(* block interval: a chain ahead of schedule gets bits 2 (work 5), one on  *)
(* schedule bits 1 (work 2), so the x branch is heavier at height 2 than   *)
(* the y branch at height 3, and the y branch overtakes it at height 4.    *)
(***************************************************************************)
EXTENDS ChainRefinement

P2pkh(key)       == [scheme |-> "MlDsa", pkh |-> key, height |-> 0]
Timelock(key, h) == [scheme |-> "MlDsa", pkh |-> key, height |-> h]
Out(amount, lock) == [amount |-> amount, lock |-> lock]

Coinbase(id, h, outs) ==
    [txid |-> id, inputs |-> <<>>, outputs |-> outs, data |-> h,
     witnesses |-> <<>>]

\* A payment whose input i spends prev[i] and is signed by its owner.
Pay(id, ins, prev, outs) ==
    [txid |-> id, inputs |-> ins, outputs |-> outs, data |-> NoData,
     witnesses |-> [i \in DOMAIN ins |->
         [pubkey |-> prev[i].lock.pkh,
          sig |-> [scheme |-> prev[i].lock.scheme, pubkey |-> prev[i].lock.pkh,
                   msg |-> <<id, i, prev[i]>>]]]]

cG  == Coinbase("cG", 0, <<Out(8, P2pkh("zero"))>>)
c1  == Coinbase("c1", 1, <<Out(6, P2pkh("A"))>>)
cx2 == Coinbase("cx2", 2, <<Out(5, P2pkh("A"))>>)
cx3 == Coinbase("cx3", 3, <<Out(5, P2pkh("A"))>>)         \* overpays by 1
cy2 == Coinbase("cy2", 2, <<Out(2, P2pkh("B")), Out(3, P2pkh("A"))>>)
cy3 == Coinbase("cy3", 3, <<Out(5, P2pkh("B"))>>)         \* reward + fee 1
cz3 == Coinbase("cz3", 3, <<Out(4, P2pkh("B"))>>)
cy4 == Coinbase("cy4", 4, <<Out(1, P2pkh("B"))>>)         \* claims less than fees
cz4 == Coinbase("cz4", 4, <<Out(3, P2pkh("B"))>>)

\* Spends the height-1 coinbase of either branch: fee 1.
t1  == Pay("t1", <<<<"c1", 1>>>>, <<Out(6, P2pkh("A"))>>,
           <<Out(3, P2pkh("B")), Out(2, P2pkh("A"))>>)
\* Spends an output of t1 inside the same block, into a timelock at height 4.
t2  == Pay("t2", <<<<"t1", 1>>>>, <<Out(3, P2pkh("B"))>>,
           <<Out(3, Timelock("B", 4))>>)
\* Spends the timelocked output: fee 2.
t3  == Pay("t3", <<<<"t2", 1>>>>, <<Out(3, Timelock("B", 4))>>,
           <<Out(1, P2pkh("A"))>>)
\* Spends the same coinbase as t1.
t1b == Pay("t1b", <<<<"c1", 1>>>>, <<Out(6, P2pkh("A"))>>,
           <<Out(5, P2pkh("A"))>>)
\* Spends a coinbase one block too early at height 3.
t4  == Pay("t4", <<<<"cy2", 1>>>>, <<Out(2, P2pkh("B"))>>, <<Out(1, P2pkh("B"))>>)
\* Signs with another key than the owner's.
t5  == Pay("t5", <<<<"c1", 1>>>>, <<Out(6, P2pkh("B"))>>, <<Out(5, P2pkh("B"))>>)
\* Outputs add up to more than a u64 holds.
t6  == Pay("t6", <<<<"c1", 1>>>>, <<Out(6, P2pkh("A"))>>,
           <<Out(40, P2pkh("A")), Out(1, P2pkh("A"))>>)
\* Spends one coin twice.
t7  == Pay("t7", <<<<"c1", 1>>, <<"c1", 1>>>>,
           <<Out(6, P2pkh("A")), Out(6, P2pkh("A"))>>, <<Out(11, P2pkh("A"))>>)

Blk(prev, time, bits, txs) ==
    [prev |-> prev, time |-> time, bits |-> bits, pow |-> TRUE, size |-> 1,
     txs |-> txs]

MCBLOCK ==
    [g   |-> Blk("zero", 10, 1, <<cG>>),
     x1  |-> Blk("g", 11, 1, <<c1>>),
     x2  |-> Blk("x1", 12, 2, <<cx2>>),
     x3  |-> Blk("x2", 14, 2, <<cx3>>),
     y1  |-> Blk("g", 12, 1, <<c1>>),
     y2  |-> Blk("y1", 14, 1, <<cy2>>),
     y3  |-> Blk("y2", 16, 1, <<cy3, t1, t2>>),
     y4  |-> Blk("y3", 18, 1, <<cy4, t3>>),
     yi  |-> Blk("y2", 16, 1, <<cz3, t4>>),
     yj  |-> Blk("yi", 18, 1, <<cz4>>),
     yd  |-> Blk("y2", 16, 1, <<cz3, t1, t1b>>),
     ys  |-> Blk("y2", 16, 1, <<cz3, t5>>),
     yo  |-> Blk("y2", 16, 1, <<cz3, t6>>),
     yu  |-> Blk("y2", 16, 1, <<cz3, t7>>),
     yt  |-> Blk("y1", 11, 1, <<cy2>>),
     yb  |-> Blk("y1", 14, 2, <<cy2>>),
     yp  |-> [Blk("y1", 14, 1, <<cy2>>) EXCEPT !.pow = FALSE],
     yz  |-> [Blk("y1", 14, 1, <<cy2>>) EXCEPT !.size = 9]]

MCBlocks == DOMAIN MCBLOCK
MCTxs    == {cG, c1, cx2, cx3, cy2, cy3, cz3, cy4, cz4, t1, t2, t3, t1b, t4, t5, t6, t7}
MCTxIds  == {tx.txid : tx \in MCTxs}

MCNextBits(dt, h) == IF dt < 2 * h THEN 2 ELSE 1
MCWork(bits)      == 3 * bits - 1
MCReward          == [h \in 0..4 |-> <<8, 6, 5, 4, 3>>[h + 1]]
=============================================================================
