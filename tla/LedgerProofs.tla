---------------------------- MODULE LedgerProofs ----------------------------
(***************************************************************************)
(* Facts about the transaction rules of Ledger for every value of its      *)
(* constants.  The result the chain's proof needs is the last lemma.       *)
(***************************************************************************)
EXTENDS Ledger, SumProofs

\* The parts of a transaction that the ledger rules read.
LEMMA TxFields ==
  \A tx \in Txs : /\ tx.txid \in TxIds
                 /\ tx.inputs \in Seq(OutPoints)
                 /\ tx.outputs \in Seq(Outputs)
                 /\ tx.data \in {NoData, BadData} \cup Nat
BY TxsAssumption

\* The partial sums that checked_add accumulates exist and satisfy their
\* recursion.
LEMMA SumsDef ==
  ASSUME NEW s, Len(s) \in Nat
  PROVE  Sums(s) = [i \in 0..Len(s) |->
                      IF i = 0 THEN 0 ELSE Sums(s)[i - 1] + s[i]]
<1> DEFINE Fits(g, n) == g = [i \in 0..n |-> IF i = 0 THEN 0 ELSE g[i - 1] + s[i]]
           S == {n \in Nat : \E g : Fits(g, n)}
<1>1. 0 \in S
  <2>1. Fits([i \in 0..0 |-> 0], 0)
    OBVIOUS
  <2> QED BY <2>1
<1>2. ASSUME NEW n \in Nat, n \in S PROVE n + 1 \in S
  <2>1. PICK g : Fits(g, n)
    BY <1>2
  <2> DEFINE h == [i \in 0..(n + 1) |-> IF i = n + 1 THEN g[n] + s[n + 1] ELSE g[i]]
  <2>2. Fits(h, n + 1)
    BY <2>1
  <2> HIDE DEF h, Fits
  <2> QED BY <2>2
<1>3. Len(s) \in S
  <2> HIDE DEF S
  <2> QED BY <1>1, <1>2, NatSetInduction
<1>4. PICK g : Fits(g, Len(s))
  BY <1>3
<1> QED BY <1>4 DEF Sums

LEMMA SumsStep ==
  ASSUME NEW s, Len(s) \in Nat
  PROVE  Sums(s)[0] = 0 /\ \A i \in 1..Len(s) : Sums(s)[i] = Sums(s)[i - 1] + s[i]
<1>1. PICK t : t = Sums(s)
  OBVIOUS
<1>2. t = [i \in 0..Len(s) |-> IF i = 0 THEN 0 ELSE t[i - 1] + s[i]]
  BY <1>1, SumsDef
<1>3. t[0] = 0
  BY <1>2
<1>4. ASSUME NEW i \in 1..Len(s) PROVE t[i] = t[i - 1] + s[i]
  BY <1>2
<1> QED BY <1>1, <1>3, <1>4

\* A sum of amounts is a natural number.
LEMMA TotalType ==
  ASSUME NEW s \in Seq(Nat)
  PROVE  Total(s) \in Nat
<1> DEFINE S == {i \in Nat : i \in 0..Len(s) => Sums(s)[i] \in Nat}
<1>1. 0 \in S
  BY SumsDef
<1>2. \A i \in Nat : i \in S => i + 1 \in S
  BY SumsDef
<1>3. \A i \in Nat : i \in S
  <2> HIDE DEF S
  <2> QED BY <1>1, <1>2, NatSetInduction
<1> QED BY <1>3 DEF Total

\* The cumulated emission schedule satisfies its recursion.
LEMMA IssuedDef ==
  Issued = [h \in 0..MAX_HEIGHT |->
              IF h = 0 THEN BLOCK_REWARD[0] ELSE Issued[h - 1] + BLOCK_REWARD[h]]
<1> DEFINE Fits(g, n) == g = [h \in 0..n |-> IF h = 0 THEN BLOCK_REWARD[0]
                                             ELSE g[h - 1] + BLOCK_REWARD[h]]
           S == {n \in Nat : \E g : Fits(g, n)}
<1>1. 0 \in S
  <2>1. Fits([i \in 0..0 |-> BLOCK_REWARD[0]], 0)
    OBVIOUS
  <2> QED BY <2>1
<1>2. ASSUME NEW n \in Nat, n \in S PROVE n + 1 \in S
  <2>1. PICK g : Fits(g, n)
    BY <1>2
  <2> DEFINE f == [h \in 0..(n + 1) |-> IF h = n + 1
                                        THEN g[n] + BLOCK_REWARD[n + 1] ELSE g[h]]
  <2>2. Fits(f, n + 1)
    BY <2>1
  <2> HIDE DEF f, Fits
  <2> QED BY <2>2
<1>3. MAX_HEIGHT \in S
  <2> HIDE DEF S
  <2> QED BY <1>1, <1>2, NatSetInduction, LedgerAssumption
<1>4. PICK g : Fits(g, MAX_HEIGHT)
  BY <1>3
<1> QED BY <1>4 DEF Issued

\* Cumulated subsidies grow with the height, so none exceeds the last one.
LEMMA IssuedMonotone ==
  /\ Issued[0] = BLOCK_REWARD[0]
  /\ \A h \in 0..MAX_HEIGHT : Issued[h] \in Nat /\ Issued[h] <= Issued[MAX_HEIGHT]
  /\ \A h \in 1..MAX_HEIGHT : Issued[h] = Issued[h - 1] + BLOCK_REWARD[h]
<1>1. Issued[0] = BLOCK_REWARD[0]
  BY IssuedDef, LedgerAssumption
<1>2. \A h \in 1..MAX_HEIGHT : Issued[h] = Issued[h - 1] + BLOCK_REWARD[h]
  BY IssuedDef, LedgerAssumption
<1>3. \A h \in 0..MAX_HEIGHT : Issued[h] \in Nat
  <2> DEFINE S == {h \in Nat : h \in 0..MAX_HEIGHT => Issued[h] \in Nat}
  <2>1. 0 \in S
    BY <1>1, LedgerAssumption
  <2>2. \A h \in Nat : h \in S => h + 1 \in S
    BY <1>2, LedgerAssumption
  <2>3. \A h \in Nat : h \in S
    <3> HIDE DEF S
    <3> QED BY <2>1, <2>2, NatSetInduction
  <2> QED BY <2>3, LedgerAssumption
<1>4. \A h \in 0..MAX_HEIGHT : Issued[h] <= Issued[MAX_HEIGHT]
  <2> DEFINE S == {d \in Nat : MAX_HEIGHT - d \in 0..MAX_HEIGHT =>
                                  Issued[MAX_HEIGHT - d] <= Issued[MAX_HEIGHT]}
  <2>1. 0 \in S
    BY <1>3, LedgerAssumption
  <2>2. ASSUME NEW d \in Nat, d \in S PROVE d + 1 \in S
    <3> SUFFICES ASSUME MAX_HEIGHT - (d + 1) \in 0..MAX_HEIGHT
                 PROVE  Issued[MAX_HEIGHT - (d + 1)] <= Issued[MAX_HEIGHT]
      OBVIOUS
    <3> DEFINE k == MAX_HEIGHT - d
    <3>1. k \in 1..MAX_HEIGHT /\ k - 1 = MAX_HEIGHT - (d + 1)
      BY LedgerAssumption
    <3>2. Issued[k] = Issued[k - 1] + BLOCK_REWARD[k] /\ BLOCK_REWARD[k] \in Nat
      BY <3>1, <1>2, LedgerAssumption
    <3>3. Issued[k] <= Issued[MAX_HEIGHT]
      BY <2>2, <3>1, LedgerAssumption
    <3>4. Issued[k - 1] \in Nat /\ Issued[k] \in Nat /\ Issued[MAX_HEIGHT] \in Nat
      BY <3>1, <1>3, LedgerAssumption
    <3> QED BY <3>1, <3>2, <3>3, <3>4
  <2>3. \A d \in Nat : d \in S
    <3> HIDE DEF S
    <3> QED BY <2>1, <2>2, NatSetInduction
  <2>4. ASSUME NEW h \in 0..MAX_HEIGHT PROVE Issued[h] <= Issued[MAX_HEIGHT]
    <3>1. MAX_HEIGHT - h \in S /\ MAX_HEIGHT - (MAX_HEIGHT - h) = h
      BY <2>3, LedgerAssumption
    <3> QED BY <3>1
  <2> QED BY <2>4
<1> QED BY <1>1, <1>2, <1>3, <1>4

\* Spending inputs and inserting outputs keeps the UTXO map well typed.
LEMMA ApplyTxType ==
  ASSUME NEW tx \in Txs, NEW h \in Nat, NEW cb \in BOOLEAN, NEW u, IsUtxoMap(u)
  PROVE  IsUtxoMap(ApplyTx(tx, h, cb, u))
<1> DEFINE v == ApplyTx(tx, h, cb, u)
<1>1. DOMAIN v = (DOMAIN u \ Spent(tx)) \cup Created(tx)
  BY DEF ApplyTx
<1>2. Created(tx) \subseteq OutPoints
  BY TxFields DEF Created, OutPoints
<1>3. ASSUME NEW op \in Created(tx) PROVE v[op] \in Utxos
  <2>1. op[2] \in DOMAIN tx.outputs
    BY DEF Created
  <2>2. tx.outputs[op[2]] \in Outputs
    BY <2>1, TxFields
  <2>3. v[op] = [output |-> tx.outputs[op[2]], height |-> h, coinbase |-> cb]
    BY DEF ApplyTx
  <2> QED BY <2>2, <2>3 DEF Utxos
<1>4. ASSUME NEW op \in DOMAIN u \ Spent(tx), op \notin Created(tx)
      PROVE  v[op] \in Utxos
  BY <1>4 DEF ApplyTx, IsUtxoMap
<1>5. v = [op \in DOMAIN v |-> v[op]]
  BY DEF ApplyTx
<1>6. DOMAIN v \subseteq OutPoints
  BY <1>1, <1>2 DEF IsUtxoMap
<1>7. \A op \in DOMAIN v : v[op] \in Utxos
  BY <1>1, <1>3, <1>4
<1> HIDE DEF v
<1> QED BY <1>5, <1>6, <1>7 DEF IsUtxoMap, v

\* out_total and cb_total are naturals.
LEMMA OutTotalType ==
  ASSUME NEW tx \in Txs
  PROVE  OutTotal(tx) \in Nat
<1>1. ASSUME NEW i \in DOMAIN tx.outputs PROVE tx.outputs[i].amount \in Nat
  <2>1. tx.outputs[i] \in Outputs
    BY TxFields
  <2> QED BY <2>1 DEF Outputs
<1>2. [i \in DOMAIN tx.outputs |-> tx.outputs[i].amount] \in Seq(Nat)
  BY <1>1, TxFields
<1> QED BY <1>2, TotalType DEF OutTotal

\* in_total is a natural once every input was found in the UTXO map.
LEMMA InTotalType ==
  ASSUME NEW tx \in Txs, NEW u, IsUtxoMap(u), Spent(tx) \subseteq DOMAIN u
  PROVE  InTotal(tx, u) \in Nat
<1>1. ASSUME NEW i \in DOMAIN tx.inputs PROVE u[tx.inputs[i]].output.amount \in Nat
  <2>1. u[tx.inputs[i]] \in Utxos
    BY DEF IsUtxoMap, Spent
  <2> QED BY <2>1 DEF Utxos, Outputs
<1>2. [i \in DOMAIN tx.inputs |-> u[tx.inputs[i]].output.amount] \in Seq(Nat)
  BY <1>1, TxFields
<1> QED BY <1>2, TotalType DEF InTotal

\* The type of the state the loop over txs[1..] carries along.
SpendAcc(acc) ==
    /\ acc = [ok |-> acc.ok, utxos |-> acc.utxos, fees |-> acc.fees]
    /\ IsUtxoMap(acc.utxos)
    /\ acc.fees \in Nat

\* How the facts of SpendAcc are put together.
LEMMA SpendAccIntro ==
  ASSUME NEW ok, NEW u, IsUtxoMap(u), NEW fees \in Nat
  PROVE  SpendAcc([ok |-> ok, utxos |-> u, fees |-> fees])
BY DEF SpendAcc

\* One iteration of the loop over txs[1..] keeps the accumulated state typed;
\* in particular a fee is never negative.
LEMMA SpendStepType ==
  ASSUME NEW acc, SpendAcc(acc), NEW tx \in Txs, NEW h \in Nat
  PROVE  SpendAcc(SpendStep(acc, tx, h))
<1> DEFINE Taken == /\ acc.ok
                    /\ ~IsCoinbase(tx)
                    /\ TxOk(tx, h, acc.utxos)
                    /\ acc.fees + Fee(tx, acc.utxos) <= MAX_U64
<1>1. CASE Taken
  <2>1. Spent(tx) \subseteq DOMAIN acc.utxos
    BY <1>1 DEF TxOk, InputOk, Spent
  <2>2. InTotal(tx, acc.utxos) \in Nat /\ OutTotal(tx) \in Nat
    BY <2>1, InTotalType, OutTotalType DEF SpendAcc
  <2>3. OutTotal(tx) <= InTotal(tx, acc.utxos)
    BY <1>1 DEF TxOk
  <2>4. acc.fees + Fee(tx, acc.utxos) \in Nat
    BY <2>2, <2>3 DEF Fee, SpendAcc
  <2>5. IsUtxoMap(ApplyTx(tx, h, FALSE, acc.utxos))
    BY ApplyTxType DEF SpendAcc
  <2>6. SpendStep(acc, tx, h) =
          [ok    |-> TRUE,
           utxos |-> ApplyTx(tx, h, FALSE, acc.utxos),
           fees  |-> acc.fees + Fee(tx, acc.utxos)]
    BY <1>1 DEF SpendStep
  <2> QED BY <2>4, <2>5, <2>6, SpendAccIntro
<1>2. CASE ~Taken
  <2>1. SpendStep(acc, tx, h) = [acc EXCEPT !.ok = FALSE]
    BY <1>2 DEF SpendStep
  <2>2. SpendStep(acc, tx, h) = [ok |-> FALSE, utxos |-> acc.utxos, fees |-> acc.fees]
    BY <2>1 DEF SpendAcc
  <2>3. IsUtxoMap(acc.utxos) /\ acc.fees \in Nat
    BY DEF SpendAcc
  <2> QED BY <2>2, <2>3, SpendAccIntro
<1> QED BY <1>1, <1>2

\* The loop over txs[1..] satisfies its recursion.
LEMMA SpendRunDef ==
  ASSUME NEW txs, Len(txs) \in Nat \ {0}, NEW h, NEW u
  PROVE  SpendRun(txs, h, u) =
           [i \in 1..Len(txs) |->
              IF i = 1 THEN [ok |-> TRUE, utxos |-> u, fees |-> 0]
                       ELSE SpendStep(SpendRun(txs, h, u)[i - 1], txs[i], h)]
<1> DEFINE Base == [ok |-> TRUE, utxos |-> u, fees |-> 0]
           Fits(g, n) == g = [i \in 1..(n + 1) |->
                                IF i = 1 THEN Base ELSE SpendStep(g[i - 1], txs[i], h)]
           S == {n \in Nat : \E g : Fits(g, n)}
<1> HIDE DEF Base
<1>1. 0 \in S
  <2>1. Fits([i \in 1..1 |-> Base], 0)
    OBVIOUS
  <2> QED BY <2>1
<1>2. ASSUME NEW n \in Nat, n \in S PROVE n + 1 \in S
  <2>1. PICK g : Fits(g, n)
    BY <1>2
  <2> DEFINE f == [i \in 1..(n + 2) |->
                     IF i = n + 2 THEN SpendStep(g[n + 1], txs[n + 2], h) ELSE g[i]]
  <2>2. Fits(f, n + 1)
    BY <2>1
  <2> HIDE DEF f, Fits
  <2> QED BY <2>2
<1>3. Len(txs) - 1 \in S
  <2> HIDE DEF S
  <2> QED BY <1>1, <1>2, NatSetInduction
<1>4. PICK g : Fits(g, Len(txs) - 1)
  BY <1>3
<1>5. g = [i \in 1..Len(txs) |->
             IF i = 1 THEN Base ELSE SpendStep(g[i - 1], txs[i], h)]
  BY <1>4
<1> QED BY <1>5 DEF SpendRun, Base

\* The loop over txs[1..] ends in a well-typed state.
LEMMA SpendTxsType ==
  ASSUME NEW txs \in Seq(Txs), txs # <<>>, NEW h \in Nat, NEW u, IsUtxoMap(u)
  PROVE  SpendAcc(SpendTxs(txs, h, u))
<1> DEFINE run == SpendRun(txs, h, u)
           S   == {n \in Nat : n + 1 \in 1..Len(txs) => SpendAcc(run[n + 1])}
<1>0. Len(txs) \in Nat \ {0}
  OBVIOUS
<1>1. 0 \in S
  <2>1. run[1] = [ok |-> TRUE, utxos |-> u, fees |-> 0]
    <3> DEFINE Base == [ok |-> TRUE, utxos |-> u, fees |-> 0]
    <3>1. run = [i \in 1..Len(txs) |->
                   IF i = 1 THEN Base ELSE SpendStep(run[i - 1], txs[i], h)]
      BY <1>0, SpendRunDef
    <3> HIDE DEF Base, run
    <3>2. run[1] = Base
      BY <1>0, <3>1
    <3> QED BY <3>2 DEF Base
  <2>2. SpendAcc(run[1])
    BY <2>1, SpendAccIntro
  <2> HIDE DEF run
  <2> QED BY <2>2
<1>2. ASSUME NEW n \in Nat, n \in S PROVE n + 1 \in S
  <2> SUFFICES ASSUME n + 2 \in 1..Len(txs) PROVE SpendAcc(run[n + 2])
    OBVIOUS
  <2>1. run[n + 2] = SpendStep(run[n + 1], txs[n + 2], h)
    BY <1>0, SpendRunDef
  <2>2. SpendAcc(run[n + 1]) /\ txs[n + 2] \in Txs
    BY <1>2
  <2> QED BY <2>1, <2>2, SpendStepType
<1>3. \A n \in Nat : n \in S
  <2> HIDE DEF S
  <2> QED BY <1>1, <1>2, NatSetInduction
<1>4. Len(txs) - 1 \in S
  <2> HIDE DEF S
  <2> QED BY <1>0, <1>3
<1>5. SpendAcc(run[Len(txs) - 1 + 1]) /\ Len(txs) - 1 + 1 = Len(txs)
  <2> HIDE DEF run
  <2> QED BY <1>0, <1>4
<1> QED BY <1>5 DEF SpendTxs

\* validate_block_txs never mints more than the subsidy of the height, whatever
\* the fees and however little the coinbase claims (cb_total.saturating_sub).
LEMMA ValidateBlockTxsType ==
  ASSUME NEW txs \in Seq(Txs), NEW h \in 0..MAX_HEIGHT, NEW u, IsUtxoMap(u)
  PROVE  /\ IsUtxoMap(ValidateBlockTxs(txs, h, u).utxos)
         /\ ValidateBlockTxs(txs, h, u).minted \in Nat
         /\ ValidateBlockTxs(txs, h, u).ok =>
              ValidateBlockTxs(txs, h, u).minted <= BLOCK_REWARD[h]
<1> DEFINE v == ValidateBlockTxs(txs, h, u)
<1>1. CASE ~BlockShapeOk(txs, h)
  <2>1. v = [ok |-> FALSE, utxos |-> u, minted |-> 0]
    BY <1>1 DEF ValidateBlockTxs
  <2>2. v.ok = FALSE /\ v.utxos = u /\ v.minted = 0
    <3> HIDE DEF v
    <3> QED BY <2>1
  <2> QED BY <2>2
<1>2. CASE BlockShapeOk(txs, h)
  <2> DEFINE r == SpendTxs(txs, h, u)
             cok == r.ok /\ CoinbaseOk(txs[1], r.fees, h)
             nu == ApplyTx(txs[1], h, TRUE, r.utxos)
             mint == Minted(txs[1], r.fees)
  <2>1. txs # <<>> /\ txs[1] \in Txs /\ h \in Nat
    BY <1>2, LedgerAssumption DEF BlockShapeOk
  <2>2. SpendAcc(r)
    BY <2>1, SpendTxsType
  <2>3. v = [ok |-> cok, utxos  |-> nu, minted |-> mint]
    BY <1>2 DEF ValidateBlockTxs
  <2>4. IsUtxoMap(nu)
    <3>1. IsUtxoMap(r.utxos)
      BY <2>2 DEF SpendAcc
    <3> QED BY <2>1, <3>1, ApplyTxType
  <2>5. OutTotal(txs[1]) \in Nat /\ r.fees \in Nat /\ BLOCK_REWARD[h] \in Nat
    BY <2>1, <2>2, OutTotalType, LedgerAssumption DEF SpendAcc
  <2>6. mint \in Nat
    BY <2>5 DEF Minted
  <2>7. cok => mint <= BLOCK_REWARD[h]
    BY <2>5 DEF Minted, CoinbaseOk
  <2> HIDE DEF cok, nu, mint, v
  <2>8. v.ok = cok /\ v.utxos = nu /\ v.minted = mint
    BY <2>3
  <2> QED BY <2>4, <2>6, <2>7, <2>8 DEF v
<1> QED BY <1>1, <1>2

-----------------------------------------------------------------------------
(***************************************************************************)
(* Value.  A transaction moves what its inputs hold to its outputs and its *)
(* fee, whatever else the UTXO map holds.                                  *)
(***************************************************************************)
\* t lists what f holds at the places s names, none of them twice.
Listing(D, f, s, t) ==
    /\ IsFiniteSet(D) /\ f \in [D -> Nat] /\ s \in Seq(D) /\ t \in Seq(Nat) /\ Len(t) = Len(s)
    /\ \A i, j \in DOMAIN s : s[i] = s[j] => i = j
    /\ \A i \in DOMAIN s : t[i] = f[s[i]]

Unlisted(D, f, s) == [x \in D \ {s[i] : i \in DOMAIN s} |-> f[x]]

\* What is left when the places of a list are taken out of a sum one by one.
LEMMA SumWithout ==
  ASSUME NEW D, NEW f, NEW s, NEW t, Listing(D, f, s, t)
  PROVE  SumFunction(Unlisted(D, f, s)) + Total(t) = SumFunction(f)
<1> DEFINE Rest(n) == [x \in D \ {s[i] : i \in 1..n} |-> f[x]]
           S == {n \in Nat : n \in 0..Len(s) =>
                                SumFunction(Rest(n)) + Sums(t)[n] = SumFunction(f)}
<1>l. /\ IsFiniteSet(D) /\ f \in [D -> Nat] /\ s \in Seq(D) /\ t \in Seq(Nat) /\ Len(t) = Len(s)
      /\ \A i, j \in DOMAIN s : s[i] = s[j] => i = j
      /\ \A i \in DOMAIN s : t[i] = f[s[i]]
  BY DEF Listing
<1>0. /\ Len(s) \in Nat /\ Len(t) \in Nat /\ DOMAIN s = 1..Len(s) /\ DOMAIN t = 1..Len(s)
      /\ \A i \in 1..Len(s) : s[i] \in D /\ t[i] \in Nat /\ t[i] = f[s[i]]
  <2>1. Len(s) \in Nat /\ DOMAIN s = 1..Len(s) /\ \A i \in DOMAIN s : s[i] \in D
    BY <1>l
  <2>2. Len(t) \in Nat /\ DOMAIN t = 1..Len(t) /\ \A i \in DOMAIN t : t[i] \in Nat
    BY <1>l
  <2> QED BY <1>l, <2>1, <2>2
<1>a. SumFunction(f) \in Nat
  BY <1>l, SumType
<1>b. \A n \in 0..Len(s) : Sums(t)[n] \in Nat
  <2> DEFINE T == {n \in Nat : n \in 0..Len(s) => Sums(t)[n] \in Nat}
  <2>1. 0 \in T
    BY <1>0, SumsDef
  <2>2. ASSUME NEW n \in Nat, n \in T PROVE n + 1 \in T
    <3> SUFFICES ASSUME n + 1 \in 0..Len(s) PROVE Sums(t)[n + 1] \in Nat
      OBVIOUS
    <3>1. n \in 0..Len(s) /\ n + 1 \in 1..Len(s) /\ (n + 1) - 1 = n
      BY <1>0
    <3>2. Sums(t)[n] \in Nat /\ t[n + 1] \in Nat
      BY <1>0, <2>2, <3>1
    <3>3. Sums(t)[n + 1] = Sums(t)[(n + 1) - 1] + t[n + 1]
      <4>1. n + 1 \in 1..Len(t)
        BY <1>0, <3>1
      <4> QED BY <1>0, <4>1, SumsStep
    <3> QED BY <3>1, <3>2, <3>3
  <2>3. \A n \in Nat : n \in T
    <3> HIDE DEF T
    <3> QED BY <2>1, <2>2, NatSetInduction
  <2> QED BY <1>0, <2>3
<1>1. 0 \in S
  <2>1. Rest(0) = f
    <3>1. D \ {s[i] : i \in 1..0} = D
      OBVIOUS
    <3>2. f = [x \in D |-> f[x]]
      BY <1>l
    <3> QED BY <3>1, <3>2
  <2>2. Sums(t)[0] = 0
    BY <1>0, SumsDef
  <2> HIDE DEF Rest
  <2> QED BY <1>a, <2>1, <2>2
<1>2. ASSUME NEW n \in Nat, n \in S PROVE n + 1 \in S
  <2> SUFFICES ASSUME n + 1 \in 0..Len(s)
               PROVE  SumFunction(Rest(n + 1)) + Sums(t)[n + 1] = SumFunction(f)
    OBVIOUS
  <2>1. n \in 0..Len(s) /\ n + 1 \in 1..Len(s) /\ n + 1 # 0 /\ (n + 1) - 1 = n
    BY <1>0
  <2>2. PICK E, x : E = D \ {s[i] : i \in 1..(n + 1)} /\ x = s[n + 1]
    OBVIOUS
  <2>3. x \in D /\ x \notin E /\ E \subseteq D
    BY <1>0, <2>1, <2>2
  <2>4. D \ {s[i] : i \in 1..n} = E \cup {x}
    <3>1. ASSUME NEW i \in 1..n PROVE s[i] # x
      <4>1. i \in DOMAIN s /\ n + 1 \in DOMAIN s /\ i # n + 1
        BY <1>0, <2>1
      <4> QED BY <1>l, <2>2, <4>1
    <3>2. \A i \in 1..(n + 1) : i \in 1..n \/ i = n + 1
      OBVIOUS
    <3>3. 1..n \subseteq 1..(n + 1)
      OBVIOUS
    <3>4. {s[i] : i \in 1..(n + 1)} = {s[i] : i \in 1..n} \cup {x}
      BY <2>1, <2>2, <3>2, <3>3
    <3>5. x \notin {s[i] : i \in 1..n}
      BY <3>1
    <3> QED BY <2>2, <2>3, <3>4, <3>5
  <2>5. PICK g, h : g = Rest(n) /\ h = Rest(n + 1)
    OBVIOUS
  <2>6. /\ g = [y \in E \cup {x} |-> f[y]] /\ h = [y \in E |-> f[y]]
        /\ g \in [E \cup {x} -> Nat] /\ h \in [E -> Nat]
    BY <1>l, <2>2, <2>3, <2>4, <2>5
  <2>7. IsFiniteSet(E)
    BY <1>l, <2>3, FS_Subset
  <2>8. SumFunction(g) = SumFunction(h) + g[x]
    <3>1. \A y \in E : g[y] = h[y]
      BY <2>6
    <3>2. /\ IsFiniteSet(E) /\ h \in [E -> Nat] /\ x \notin E
          /\ g \in [E \cup {x} -> Nat]
      BY <2>3, <2>6, <2>7
    <3> QED BY ONLY <3>1, <3>2, SumAdd
  <2>9. SumFunction(h) \in Nat /\ g[x] = f[x] /\ f[x] \in Nat
    BY <2>3, <2>6, <2>7, SumType
  <2>10. Sums(t)[n + 1] = Sums(t)[n] + f[x]
    <3>1. Sums(t)[n + 1] = Sums(t)[(n + 1) - 1] + t[n + 1]
      BY <1>0, <2>1, SumsStep
    <3> QED BY <1>0, <2>1, <2>2, <3>1
  <2>11. SumFunction(g) + Sums(t)[n] = SumFunction(f)
    BY <1>2, <2>1, <2>5
  <2>12. Sums(t)[n] \in Nat
    BY <1>b, <2>1
  <2>13. SumFunction(h) + Sums(t)[n + 1] = SumFunction(f)
    <3> HIDE DEF Rest, S
    <3> QED BY <2>8, <2>9, <2>10, <2>11, <2>12
  <2> QED BY <2>5, <2>13
<1>3. \A n \in Nat : n \in S
  <2> HIDE DEF S
  <2> QED BY <1>1, <1>2, NatSetInduction
<1>4. SumFunction(Rest(Len(s))) + Sums(t)[Len(s)] = SumFunction(f)
  <2> HIDE DEF Rest
  <2>1. Len(s) \in S /\ Len(s) \in 0..Len(s)
    BY <1>0, <1>3
  <2> QED BY <2>1
<1>5. Rest(Len(s)) = Unlisted(D, f, s)
  BY <1>0 DEF Unlisted
<1> HIDE DEF Rest
<1> QED BY <1>0, <1>4, <1>5 DEF Total

\* The outputs of a transaction as a list of amounts.
LEMMA OutputsTyped ==
  ASSUME NEW tx \in Txs
  PROVE  /\ Len(tx.outputs) \in Nat /\ DOMAIN tx.outputs = 1..Len(tx.outputs)
         /\ \A v \in DOMAIN tx.outputs : tx.outputs[v] \in Outputs /\ tx.outputs[v].amount \in Nat
         /\ Len(tx.inputs) \in Nat /\ DOMAIN tx.inputs = 1..Len(tx.inputs)
         /\ \A i \in DOMAIN tx.inputs : tx.inputs[i] \in OutPoints
<1>1. tx.outputs \in Seq(Outputs) /\ tx.inputs \in Seq(OutPoints)
  BY TxFields
<1>2. \A v \in DOMAIN tx.outputs : tx.outputs[v] \in Outputs
  BY <1>1
<1>3. \A o \in Outputs : o.amount \in Nat
  BY DEF Outputs
<1> QED BY <1>1, <1>2, <1>3

\* The amounts of a UTXO map.
AmountsOf(u) == [op \in DOMAIN u |-> u[op].output.amount]

LEMMA AmountsType ==
  ASSUME NEW u, IsUtxoMap(u), IsFiniteSet(DOMAIN u)
  PROVE  /\ AmountsOf(u) \in [DOMAIN u -> Nat] /\ UtxoTotal(u) = SumFunction(AmountsOf(u))
         /\ UtxoTotal(u) \in Nat
<1>1. ASSUME NEW op \in DOMAIN u PROVE u[op].output.amount \in Nat
  <2>1. u[op] \in Utxos
    BY DEF IsUtxoMap
  <2> QED BY <2>1 DEF Utxos, Outputs
<1>2. AmountsOf(u) \in [DOMAIN u -> Nat]
  BY <1>1 DEF AmountsOf
<1>3. UtxoTotal(u) = SumFunction(AmountsOf(u))
  BY DEF UtxoTotal, AmountsOf
<1>4. SumFunction(AmountsOf(u)) \in Nat
  BY <1>2, SumType
<1> QED BY <1>2, <1>3, <1>4

\* The outpoints a transaction creates, for any ids.
LEMMA CreatedFinite ==
  ASSUME NEW tx, NEW X, tx.outputs \in Seq(X)
  PROVE  /\ IsFiniteSet(Created(tx))
         /\ \A op \in Created(tx) : op[1] = tx.txid /\ op[2] \in DOMAIN tx.outputs
         /\ \A op \in Created(tx) : op = <<tx.txid, op[2]>>
<1>1. \A v \in DOMAIN tx.outputs : <<tx.txid, v>>[1] = tx.txid /\ <<tx.txid, v>>[2] = v
  OBVIOUS
<1>2. PICK n, f, T : /\ n = Len(tx.outputs) /\ f = [v \in 1..n |-> <<tx.txid, v>>]
                     /\ T = Created(tx)
  OBVIOUS
<1>3. n \in Nat /\ DOMAIN tx.outputs = 1..n
  BY <1>2
<1>4. f \in Surjection(1..n, T)
  BY <1>2, <1>3 DEF Created, Surjection
<1>5. IsFiniteSet(1..n)
  BY <1>3, FS_Interval
<1>6. IsFiniteSet(T)
  BY ONLY <1>4, <1>5, FS_Surjection
<1> QED BY <1>1, <1>2, <1>6 DEF Created

LEMMA CreatedFacts ==
  ASSUME NEW tx \in Txs
  PROVE  /\ IsFiniteSet(Created(tx)) /\ Created(tx) \subseteq OutPoints
         /\ \A op \in Created(tx) : op[1] = tx.txid /\ op[2] \in DOMAIN tx.outputs
         /\ \A op \in Created(tx) : op = <<tx.txid, op[2]>>
<1>1. Created(tx) \subseteq OutPoints
  BY TxFields DEF Created, OutPoints
<1>2. tx.outputs \in Seq(Outputs)
  BY TxFields
<1> QED BY <1>1, <1>2, CreatedFinite

\* What the outputs of a map count under a weight of each.
Weighed(w, u) == [op \in DOMAIN u |-> w[u[op].output]]

InWeight(w, tx, u) == Total([i \in DOMAIN tx.inputs |-> w[u[tx.inputs[i]].output]])
OutWeight(w, tx)   == Total([i \in DOMAIN tx.outputs |-> w[tx.outputs[i]]])

HasOutputs(u) == IsFiniteSet(DOMAIN u) /\ \A op \in DOMAIN u : u[op].output \in Outputs

\* A transaction takes its inputs out of the map, no other place, and puts its
\* outputs in new ones.
Applies(tx, u) ==
    /\ HasOutputs(u) /\ tx.outputs \in Seq(Outputs)
    /\ Len(tx.inputs) \in Nat /\ DOMAIN tx.inputs = 1..Len(tx.inputs)
    /\ tx.inputs = [i \in 1..Len(tx.inputs) |-> tx.inputs[i]]
    /\ Spent(tx) \subseteq DOMAIN u
    /\ \A i, j \in DOMAIN tx.inputs : i # j => tx.inputs[i] # tx.inputs[j]
    /\ Created(tx) \cap DOMAIN u = {}

LEMMA WeighedType ==
  ASSUME NEW u, HasOutputs(u), NEW w \in [Outputs -> Nat]
  PROVE  Weighed(w, u) \in [DOMAIN u -> Nat] /\ SumFunction(Weighed(w, u)) \in Nat
<1>1. Weighed(w, u) \in [DOMAIN u -> Nat]
  BY DEF Weighed, HasOutputs
<1> QED BY <1>1, SumType DEF HasOutputs

LEMMA WeightsType ==
  ASSUME NEW tx, NEW u, Applies(tx, u), NEW w \in [Outputs -> Nat]
  PROVE  InWeight(w, tx, u) \in Nat /\ OutWeight(w, tx) \in Nat
<1>1. PICK k, t : k = Len(tx.inputs) /\ t = [i \in DOMAIN tx.inputs |-> w[u[tx.inputs[i]].output]]
  OBVIOUS
<1>2. k \in Nat /\ t \in [1..k -> Nat]
  BY <1>1 DEF Applies, HasOutputs, Spent
<1>3. t \in Seq(Nat)
  BY ONLY <1>2
<1>4. PICK s : s = [i \in DOMAIN tx.outputs |-> w[tx.outputs[i]]]
  OBVIOUS
<1>5. Len(tx.outputs) \in Nat /\ DOMAIN tx.outputs = 1..Len(tx.outputs)
  BY DEF Applies
<1>6. \A i \in DOMAIN tx.outputs : tx.outputs[i] \in Outputs
  BY DEF Applies
<1>7. s \in Seq(Nat)
  BY <1>4, <1>5, <1>6
<1>8. Total(t) \in Nat /\ Total(s) \in Nat
  BY ONLY <1>3, <1>7, TotalType
<1> QED BY <1>1, <1>4, <1>8 DEF InWeight, OutWeight

\* What a transaction takes out of the map and puts into it, under any weight.
LEMMA ApplyTxMoves ==
  ASSUME NEW tx, NEW h, NEW cb, NEW u, NEW w \in [Outputs -> Nat], Applies(tx, u)
  PROVE  /\ HasOutputs(ApplyTx(tx, h, cb, u))
         /\ SumFunction(Weighed(w, ApplyTx(tx, h, cb, u))) + InWeight(w, tx, u)
              = SumFunction(Weighed(w, u)) + OutWeight(w, tx)
<1>1. PICK v, D, R : /\ v = ApplyTx(tx, h, cb, u) /\ D = DOMAIN u
                     /\ R = (DOMAIN u \ Spent(tx)) \cup Created(tx)
  OBVIOUS
<1>a. \A i \in DOMAIN tx.outputs : tx.outputs[i] \in Outputs
  BY DEF Applies
<1>b. \A op \in Created(tx) : op[1] = tx.txid /\ op[2] \in DOMAIN tx.outputs
  BY CreatedFinite DEF Applies
<1>2. /\ DOMAIN v = R
      /\ \A op \in Created(tx) : v[op].output = tx.outputs[op[2]] /\ v[op].output \in Outputs
      /\ \A op \in R \ Created(tx) : op \in D /\ v[op] = u[op]
  BY <1>1, <1>a, <1>b DEF ApplyTx
<1>3. IsFiniteSet(R) /\ IsFiniteSet(D)
  <2>1. IsFiniteSet(DOMAIN u \ Spent(tx)) /\ IsFiniteSet(DOMAIN u)
    BY FS_Subset DEF Applies, HasOutputs
  <2>2. IsFiniteSet(Created(tx))
    BY CreatedFinite DEF Applies
  <2> QED BY <1>1, <2>1, <2>2, FS_Union
<1>c. HasOutputs(v) /\ HasOutputs(u)
  BY <1>1, <1>2, <1>3 DEF HasOutputs, Applies
<1>4. PICK a, b : a = Weighed(w, u) /\ b = Weighed(w, v)
  OBVIOUS
<1>5. /\ a \in [D -> Nat] /\ b \in [R -> Nat]
      /\ SumFunction(a) \in Nat /\ SumFunction(b) \in Nat
  BY <1>1, <1>2, <1>4, <1>c, WeighedType
<1>6. /\ \A op \in D : a[op] = w[u[op].output]
      /\ \A op \in R : b[op] = w[v[op].output]
  BY <1>1, <1>2, <1>4 DEF Weighed
<1>7. PICK rest : rest = [op \in D \ Spent(tx) |-> a[op]]
  OBVIOUS
<1>8. rest \in [D \ Spent(tx) -> Nat] /\ SumFunction(rest) \in Nat
  <2>1. rest \in [D \ Spent(tx) -> Nat]
    BY <1>5, <1>7
  <2>2. IsFiniteSet(D \ Spent(tx))
    BY <1>3, FS_Subset
  <2> QED BY <2>1, <2>2, SumType
<1>9. SumFunction(rest) + InWeight(w, tx, u) = SumFunction(a)
  <2>1. PICK k, s, t : /\ k = Len(tx.inputs) /\ s = tx.inputs
                       /\ t = [i \in DOMAIN tx.inputs |-> w[u[tx.inputs[i]].output]]
    OBVIOUS
  <2>2. /\ k \in Nat /\ DOMAIN s = 1..k /\ \A i \in DOMAIN s : s[i] \in D
        /\ s = [i \in 1..k |-> s[i]] /\ DOMAIN t = 1..k
        /\ \A i, j \in DOMAIN s : s[i] = s[j] => i = j
    BY <1>1, <2>1 DEF Spent, Applies
  <2>3. ASSUME NEW i \in DOMAIN s PROVE t[i] = a[s[i]] /\ t[i] \in Nat
    <3>1. t[i] = w[u[s[i]].output]
      BY <2>1
    <3>2. s[i] \in D
      BY <2>2
    <3> QED BY <1>5, <1>6, <3>1, <3>2
  <2>4. s \in [1..k -> D] /\ t \in [1..k -> Nat]
    <3>1. t = [i \in 1..k |-> t[i]]
      BY <2>1, <2>2
    <3> QED BY <2>2, <2>3, <3>1
  <2>5. s \in Seq(D) /\ Len(s) = k /\ t \in Seq(Nat) /\ Len(t) = k
    BY ONLY <2>2, <2>4
  <2>6. Listing(D, a, s, t)
    BY <1>3, <1>5, <2>2, <2>3, <2>5 DEF Listing
  <2>7. SumFunction(Unlisted(D, a, s)) + Total(t) = SumFunction(a)
    BY ONLY <2>6, SumWithout
  <2>8. Unlisted(D, a, s) = rest
    BY <1>7, <2>1 DEF Unlisted, Spent
  <2> QED BY <2>1, <2>7, <2>8 DEF InWeight
<1>10. SumFunction(rest) + OutWeight(w, tx) = SumFunction(b)
  <2>1. PICK k, s, t : /\ k = Len(tx.outputs) /\ s = [i \in DOMAIN tx.outputs |-> <<tx.txid, i>>]
                       /\ t = [i \in DOMAIN tx.outputs |-> w[tx.outputs[i]]]
    OBVIOUS
  <2>2. k \in Nat /\ DOMAIN tx.outputs = 1..k /\ DOMAIN s = 1..k /\ DOMAIN t = 1..k
    BY <2>1 DEF Applies
  <2>3. \A i \in DOMAIN s : s[i] \in Created(tx) /\ s[i] \in R /\ s[i][2] = i
    BY <1>1, <2>1 DEF Created
  <2>4. ASSUME NEW i \in DOMAIN s PROVE t[i] = b[s[i]] /\ t[i] \in Nat
    <3>1. t[i] = w[tx.outputs[i]]
      BY <2>1, <2>2
    <3>2. v[s[i]].output = tx.outputs[i]
      BY <1>2, <2>3
    <3>3. b[s[i]] = w[v[s[i]].output] /\ b[s[i]] \in Nat
      BY <1>5, <1>6, <2>3
    <3> QED BY <3>1, <3>2, <3>3
  <2>5. s \in [1..k -> R] /\ t \in [1..k -> Nat]
    BY <2>1, <2>2, <2>3, <2>4
  <2>6. s \in Seq(R) /\ Len(s) = k /\ t \in Seq(Nat) /\ Len(t) = k
    BY ONLY <2>2, <2>5
  <2>7. \A i, j \in DOMAIN s : s[i] = s[j] => i = j
    BY <2>3
  <2>8. Listing(R, b, s, t)
    BY <1>3, <1>5, <2>4, <2>6, <2>7 DEF Listing
  <2>9. SumFunction(Unlisted(R, b, s)) + Total(t) = SumFunction(b)
    BY ONLY <2>8, SumWithout
  <2>10. R \ {s[i] : i \in DOMAIN s} = D \ Spent(tx)
    <3>1. {s[i] : i \in DOMAIN s} = Created(tx)
      BY <2>1, <2>2 DEF Created
    <3>2. Created(tx) \cap D = {}
      BY <1>1 DEF Applies
    <3> QED BY <1>1, <3>1, <3>2
  <2>11. Unlisted(R, b, s) = rest
    <3>1. \A x \in D \ Spent(tx) : x \in R \ Created(tx)
      BY <1>1 DEF Applies
    <3>2. \A x \in D \ Spent(tx) : b[x] = a[x]
      BY <1>2, <1>6, <3>1
    <3> QED BY <1>7, <2>10, <3>2 DEF Unlisted
  <2> QED BY <2>1, <2>9, <2>11 DEF OutWeight
<1>11. InWeight(w, tx, u) \in Nat /\ OutWeight(w, tx) \in Nat
  BY WeightsType
<1>12. SumFunction(b) + InWeight(w, tx, u) = SumFunction(a) + OutWeight(w, tx)
  BY <1>5, <1>8, <1>9, <1>10, <1>11
<1> QED BY <1>1, <1>4, <1>12, <1>c

\* Every output weighs its amount.
AmountOf == [o \in Outputs |-> o.amount]

LEMMA AmountWeight ==
  /\ AmountOf \in [Outputs -> Nat]
  /\ \A u : HasOutputs(u) => UtxoTotal(u) = SumFunction(Weighed(AmountOf, u))
<1>1. AmountOf \in [Outputs -> Nat]
  BY DEF AmountOf, Outputs
<1>2. ASSUME NEW u, HasOutputs(u)
      PROVE  [op \in DOMAIN u |-> u[op].output.amount] = Weighed(AmountOf, u)
  BY <1>2 DEF AmountOf, Weighed, HasOutputs
<1> QED BY <1>1, <1>2 DEF UtxoTotal

LEMMA AmountsInOut ==
  ASSUME NEW tx, NEW u, Applies(tx, u)
  PROVE  /\ InTotal(tx, u) = InWeight(AmountOf, tx, u) /\ InTotal(tx, u) \in Nat
         /\ OutTotal(tx) = OutWeight(AmountOf, tx) /\ OutTotal(tx) \in Nat
<1>1. [i \in DOMAIN tx.inputs |-> u[tx.inputs[i]].output.amount]
        = [i \in DOMAIN tx.inputs |-> AmountOf[u[tx.inputs[i]].output]]
  BY DEF AmountOf, Applies, HasOutputs, Spent
<1>2. \A i \in DOMAIN tx.outputs : tx.outputs[i] \in Outputs
  BY DEF Applies
<1>3. [i \in DOMAIN tx.outputs |-> tx.outputs[i].amount]
        = [i \in DOMAIN tx.outputs |-> AmountOf[tx.outputs[i]]]
  BY <1>2 DEF AmountOf
<1> QED BY <1>1, <1>3, AmountWeight, WeightsType DEF InTotal, InWeight, OutTotal, OutWeight

\* The same for a transaction of the block universe and for its amounts.
LEMMA ApplyTxTotal ==
  ASSUME NEW tx \in Txs, NEW h \in Nat, NEW cb \in BOOLEAN,
         NEW u, IsUtxoMap(u), IsFiniteSet(DOMAIN u), Spent(tx) \subseteq DOMAIN u,
         \A i, j \in DOMAIN tx.inputs : i # j => tx.inputs[i] # tx.inputs[j],
         Created(tx) \cap DOMAIN u = {}
  PROVE  /\ IsFiniteSet(DOMAIN ApplyTx(tx, h, cb, u))
         /\ UtxoTotal(ApplyTx(tx, h, cb, u)) + InTotal(tx, u) = UtxoTotal(u) + OutTotal(tx)
<1>1. HasOutputs(u)
  BY DEF HasOutputs, IsUtxoMap, Utxos
<1>2. /\ tx.outputs \in Seq(Outputs) /\ Len(tx.inputs) \in Nat
      /\ DOMAIN tx.inputs = 1..Len(tx.inputs)
      /\ tx.inputs = [i \in 1..Len(tx.inputs) |-> tx.inputs[i]]
  BY TxFields
<1>3. Applies(tx, u)
  BY <1>1, <1>2 DEF Applies
<1>4. PICK v : v = ApplyTx(tx, h, cb, u)
  OBVIOUS
<1>5. /\ HasOutputs(v)
      /\ SumFunction(Weighed(AmountOf, v)) + InWeight(AmountOf, tx, u)
           = SumFunction(Weighed(AmountOf, u)) + OutWeight(AmountOf, tx)
  BY <1>3, <1>4, AmountWeight, ApplyTxMoves
<1> QED BY <1>1, <1>3, <1>4, <1>5, AmountWeight, AmountsInOut DEF HasOutputs
=============================================================================
