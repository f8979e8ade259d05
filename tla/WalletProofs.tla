---------------------------- MODULE WalletProofs ----------------------------
(***************************************************************************)
(* Proofs about Wallet for any wallet, sessions, payments and coins: its   *)
(* money adds up, what it shows as balance it can pay, and what it signs   *)
(* is valid where it looked, provided that it can read the locks.          *)
(***************************************************************************)
EXTENDS Wallet, LedgerProofs

-----------------------------------------------------------------------------
(***************************************************************************)
(* The spends of a block, applied one by one in an order nobody knows.     *)
(***************************************************************************)
SpendOne(x, h, m) == ApplyTx(x, h, FALSE, m)

Run(ts, h, map) ==
    CHOOSE g : g = [s \in SUBSET ts |->
                      IF s = {} THEN map
                      ELSE SpendOne(Chosen(s), h, g[s \ {Chosen(s)}])]

LEMMA ApplyAllIsRun ==
  ASSUME NEW ts, NEW h, NEW map
  PROVE  ApplyAll(ts, h, map) = Run(ts, h, map)[ts]
  BY DEF ApplyAll, FoldSet, MapThenFoldSet, Run, Chosen, SpendOne

\* The recursion has a solution when there are finitely many of them.
LEMMA RunStep ==
  ASSUME NEW ts, IsFiniteSet(ts), NEW h, NEW map
  PROVE  /\ Run(ts, h, map)[{}] = map
         /\ \A s \in SUBSET ts : s # {} =>
              Run(ts, h, map)[s] =
                  SpendOne(Chosen(s), h, Run(ts, h, map)[s \ {Chosen(s)}])
<1> DEFINE Sub(n) == {s \in SUBSET ts : Cardinality(s) <= n}
           Solves(g, n) == g = [s \in Sub(n) |->
                                  IF s = {} THEN map
                                  ELSE SpendOne(Chosen(s), h, g[s \ {Chosen(s)}])]
           S == {n \in Nat : \E g : Solves(g, n)}
<1>0. ASSUME NEW s \in SUBSET ts
      PROVE  IsFiniteSet(s) /\ Cardinality(s) \in Nat /\ Cardinality(s) <= Cardinality(ts)
  BY FS_Subset, FS_CardinalityType
<1>1. ASSUME NEW n \in Nat, NEW s \in Sub(n + 1), s # {}
      PROVE  s \ {Chosen(s)} \in Sub(n)
  <2>1. IsFiniteSet(s) /\ Chosen(s) \in s
    BY <1>0, <1>1 DEF Chosen
  <2>2. Cardinality(s \ {Chosen(s)}) \in Nat /\ Cardinality(s) = Cardinality(s \ {Chosen(s)}) + 1
    BY <2>1, Smaller
  <2> QED BY <2>2
<1>2. 0 \in S
  <2>1. \A s \in Sub(0) : s = {}
    BY <1>0, FS_EmptySet
  <2>2. Solves([s \in Sub(0) |-> map], 0)
    BY <2>1
  <2> QED BY <2>2
<1>3. ASSUME NEW n \in Nat, n \in S PROVE n + 1 \in S
  <2>1. PICK g : Solves(g, n)
    BY <1>3
  <2> DEFINE k == [s \in Sub(n + 1) |->
                     IF s = {} THEN map
                     ELSE SpendOne(Chosen(s), h, g[s \ {Chosen(s)}])]
  <2>2. \A s \in Sub(n) : k[s] = g[s]
    <3>1. \A s \in Sub(n) : s \in Sub(n + 1)
      BY <1>0
    <3>2. \A s \in Sub(n) : g[s] = IF s = {} THEN map
                                   ELSE SpendOne(Chosen(s), h, g[s \ {Chosen(s)}])
      BY <2>1
    <3> QED BY <3>1, <3>2
  <2>3. \A s \in Sub(n + 1) : s # {} => k[s \ {Chosen(s)}] = g[s \ {Chosen(s)}]
    BY <2>2, <1>1
  <2>4. Solves(k, n + 1)
    BY <2>3
  <2> HIDE DEF k, Solves
  <2> QED BY <2>4
<1>4. \A n \in Nat : n \in S
  <2> HIDE DEF S
  <2> QED BY <1>2, <1>3, NatSetInduction
<1>5. PICK g : Solves(g, Cardinality(ts))
  BY <1>0, <1>4
<1>6. Sub(Cardinality(ts)) = SUBSET ts
  BY <1>0
<1>7. g = [s \in SUBSET ts |-> IF s = {} THEN map
                               ELSE SpendOne(Chosen(s), h, g[s \ {Chosen(s)}])]
  BY <1>5, <1>6
<1>8. PICK r : r = Run(ts, h, map)
  OBVIOUS
<1>9. r = [s \in SUBSET ts |-> IF s = {} THEN map
                               ELSE SpendOne(Chosen(s), h, r[s \ {Chosen(s)}])]
  BY <1>7, <1>8 DEF Run
<1>10. r[{}] = map
  BY <1>9
<1>11. ASSUME NEW s \in SUBSET ts, s # {}
       PROVE  r[s] = SpendOne(Chosen(s), h, r[s \ {Chosen(s)}])
  BY <1>9, <1>11
<1> QED BY <1>8, <1>10, <1>11

-----------------------------------------------------------------------------
(***************************************************************************)
(* What the wallet signs.                                                  *)
(***************************************************************************)
Key(o) == <<o.lock.scheme, o.lock.pkh>>

\* An output counts for the wallet by its amount, if it is the wallet's own.
OwnAmount == [o \in Outputs |-> IF Key(o) \in OwnedKeys THEN o.amount ELSE 0]

\* The output that input i was signed for.
Claimed(tx, i) == tx.witnesses[i].sig.msg[3]

ClaimedTotal(tx) == Total([i \in DOMAIN tx.inputs |-> Claimed(tx, i).amount])
ChangeTotal(tx)  == OutWeight(OwnAmount, tx)

\* A transaction of this wallet: it claims coins of its own only.
Shape(tx) ==
    /\ tx.txid = <<"tx", tx.inputs, tx.outputs>>
    /\ Len(tx.inputs) \in Nat /\ DOMAIN tx.inputs = 1..Len(tx.inputs)
    /\ tx.inputs = [i \in 1..Len(tx.inputs) |-> tx.inputs[i]]
    /\ tx.outputs \in Seq(Outputs)
    /\ \A i \in DOMAIN tx.outputs : tx.outputs[i].lock.height = 0
    /\ \A i \in DOMAIN tx.inputs :
          Claimed(tx, i) \in Outputs /\ Key(Claimed(tx, i)) \in OwnedKeys

\* It costs the wallet what the payment takes from it.
Pays(tx, pay) ==
    /\ Shape(tx) /\ pay \in Payments
    /\ ChangeTotal(tx) \in Nat /\ ClaimedTotal(tx) \in Nat
    /\ Leaves(pay) + ChangeTotal(tx) = ClaimedTotal(tx)

Paid(tx) == \E pay \in Payments : Pays(tx, pay)

Cost(tx) == ClaimedTotal(tx) - ChangeTotal(tx)

LEMMA PaysCost ==
  ASSUME NEW tx, NEW pay, Pays(tx, pay)
  PROVE  /\ Cost(tx) = Leaves(pay) /\ Cost(tx) \in Nat
         /\ ChangeTotal(tx) \in Nat /\ ClaimedTotal(tx) = ChangeTotal(tx) + Cost(tx)
         /\ Shape(tx)
<1>1. Leaves(pay) \in Nat
  BY WalletAssumption DEF Pays, Leaves
<1> QED BY <1>1 DEF Pays, Cost

LEMMA OwnAmountType ==
  /\ OwnAmount \in [Outputs -> Nat]
  /\ \A o \in Outputs : o.amount \in Nat
BY DEF OwnAmount, Outputs

\* The coins that a session works with are coins of its own.
OwnMap(map) == HasOutputs(map) /\ \A op \in DOMAIN map : Owns(map[op])

LEMMA OrderFacts ==
  ASSUME NEW map, NEW sel, IsFiniteSet(sel), NEW ins \in Orders(map, sel)
  PROVE  /\ ins \in Seq(sel) /\ Len(ins) = Cardinality(sel) /\ Len(ins) \in Nat
         /\ DOMAIN ins = 1..Len(ins) /\ ins = [i \in 1..Len(ins) |-> ins[i]]
         /\ \A i, j \in DOMAIN ins : ins[i] = ins[j] => i = j
         /\ {ins[i] : i \in DOMAIN ins} = sel
<1>1. PICK k : k = Cardinality(sel)
  OBVIOUS
<1>2. k \in Nat
  BY <1>1, FS_CardinalityType
<1>3. ins \in [1..k -> sel] /\ \A i, j \in 1..k : i # j => ins[i] # ins[j]
  BY <1>1 DEF Orders, SetToSeqs
<1>4. ins \in Seq(sel) /\ Len(ins) = k /\ DOMAIN ins = 1..k
  BY ONLY <1>2, <1>3
<1>5. ins \in Injection(1..k, sel)
  BY <1>3 DEF Injection, IsInjective
<1>6. Cardinality(1..k) = k
  BY <1>2, FS_Interval
<1>7. ins \in Surjection(1..k, sel)
  BY <1>1, <1>5, <1>6, FS_Injection
<1>8. {ins[i] : i \in 1..k} = sel
  BY <1>3, <1>7 DEF Surjection
<1> QED BY <1>1, <1>2, <1>3, <1>4, <1>8

\* Listed in an order, selected coins add up to the same.
LEMMA OrderTotal ==
  ASSUME NEW map, HasOutputs(map), NEW sel, sel \subseteq DOMAIN map,
         NEW ins \in Orders(map, sel)
  PROVE  /\ Total([i \in DOMAIN ins |-> map[ins[i]].output.amount]) = Amounts(map, sel)
         /\ Amounts(map, sel) \in Nat
<1>1. IsFiniteSet(sel)
  BY FS_Subset DEF HasOutputs
<1>2. PICK f, t : /\ f = [op \in sel |-> map[op].output.amount]
                  /\ t = [i \in DOMAIN ins |-> map[ins[i]].output.amount]
  OBVIOUS
<1>3. f \in [sel -> Nat]
  BY <1>2, OwnAmountType DEF HasOutputs
<1>4. /\ ins \in Seq(sel) /\ Len(ins) \in Nat /\ DOMAIN ins = 1..Len(ins)
      /\ \A i, j \in DOMAIN ins : ins[i] = ins[j] => i = j
      /\ {ins[i] : i \in DOMAIN ins} = sel
  BY <1>1, OrderFacts
<1>5. PICK k : k = Len(ins)
  OBVIOUS
<1>6. \A i \in DOMAIN ins : ins[i] \in sel
  BY <1>4
<1>7. t = [i \in 1..k |-> t[i]] /\ \A i \in DOMAIN ins : t[i] = f[ins[i]]
  BY <1>2, <1>4, <1>5, <1>6
<1>8. t \in [1..k -> Nat]
  BY <1>3, <1>4, <1>5, <1>6, <1>7
<1>9. t \in Seq(Nat) /\ Len(t) = k
  BY ONLY <1>4, <1>5, <1>8
<1>10. Listing(sel, f, ins, t)
  BY <1>1, <1>3, <1>4, <1>5, <1>7, <1>9 DEF Listing
<1>11. SumFunction(Unlisted(sel, f, ins)) + Total(t) = SumFunction(f)
  BY ONLY <1>10, SumWithout
<1>12. SumFunction(Unlisted(sel, f, ins)) = 0
  <2>1. DOMAIN Unlisted(sel, f, ins) = {}
    BY <1>4 DEF Unlisted
  <2> QED BY <2>1, SumEmpty
<1>13. SumFunction(f) \in Nat /\ Total(t) \in Nat
  BY <1>1, <1>3, <1>9, SumType, TotalType
<1>14. Amounts(map, sel) = SumFunction(f)
  BY <1>2 DEF Amounts
<1> QED BY <1>2, <1>11, <1>12, <1>13, <1>14

\* The outputs of a payment, under any weight.
LEMMA PaymentWeight ==
  ASSUME NEW pay \in Payments, NEW change \in Nat, NEW w \in [Outputs -> Nat]
  PROVE  LET outs  == PaymentOutputs(pay, change)
             paid  == Output(pay.amount, pay.to[1], pay.to[2])
             back  == Output(change, "MlDsa", ChangeKey)
         IN  /\ paid \in Outputs /\ Key(paid) = pay.to /\ paid.amount = pay.amount
             /\ back \in Outputs /\ Key(back) \in OwnedKeys /\ back.amount = change
             /\ paid.lock.height = 0 /\ back.lock.height = 0
             /\ outs \in Seq(Outputs) /\ outs # <<>>
             /\ \A i \in DOMAIN outs : outs[i] = paid \/ (outs[i] = back /\ change > 0)
             /\ Total([i \in DOMAIN outs |-> w[outs[i]]])
                  = w[paid] + (IF change > 0 THEN w[back] ELSE 0)
<1>1. PICK outs, one, back : /\ outs = PaymentOutputs(pay, change)
                             /\ one = Output(pay.amount, pay.to[1], pay.to[2])
                             /\ back = Output(change, "MlDsa", ChangeKey)
  OBVIOUS
<1>2. /\ pay.amount \in Nat /\ pay.to \in {"MlDsa", "SlhDsa"} \X Keys
      /\ <<"MlDsa", ChangeKey>> \in OwnedKeys /\ ChangeKey \in Keys
  BY WalletAssumption
<1>3. /\ one \in Outputs /\ Key(one) = pay.to /\ one.amount = pay.amount
      /\ one.lock.height = 0
  BY <1>1, <1>2 DEF Output, Outputs, Locks, Key
<1>4. /\ back \in Outputs /\ Key(back) = <<"MlDsa", ChangeKey>> /\ back.amount = change
      /\ back.lock.height = 0
  BY <1>1, <1>2 DEF Output, Outputs, Locks, Key
<1>5. CASE change > 0
  <2>1. outs = <<one>> \o <<back>>
    BY <1>1, <1>5 DEF PaymentOutputs
  <2>2. /\ outs \in Seq(Outputs) /\ Len(outs) = 2 /\ DOMAIN outs = 1..2 /\ outs # <<>>
        /\ outs[1] = one /\ outs[2] = back
    BY ONLY <1>3, <1>4, <2>1
  <2>3. PICK t : t = [i \in DOMAIN outs |-> w[outs[i]]]
    OBVIOUS
  <2>4. t \in [1..2 -> Nat] /\ t[1] = w[one] /\ t[2] = w[back]
    BY <1>3, <1>4, <2>2, <2>3
  <2>5. Len(t) = 2
    BY ONLY <2>4
  <2>6. Sums(t)[0] = 0 /\ Sums(t)[1] = Sums(t)[0] + t[1] /\ Sums(t)[2] = Sums(t)[1] + t[2]
    BY <2>5, SumsStep
  <2>7. Total(t) = w[one] + w[back]
    BY <1>3, <1>4, <2>4, <2>5, <2>6 DEF Total
  <2>8. \A i \in DOMAIN outs : outs[i] = one \/ outs[i] = back
    BY <2>2
  <2> QED BY <1>1, <1>2, <1>3, <1>4, <1>5, <2>2, <2>3, <2>7, <2>8
<1>6. CASE ~(change > 0)
  <2>1. outs = <<one>>
    BY <1>1, <1>6 DEF PaymentOutputs
  <2>2. /\ outs \in Seq(Outputs) /\ Len(outs) = 1 /\ DOMAIN outs = 1..1 /\ outs # <<>>
        /\ outs[1] = one
    BY ONLY <1>3, <2>1
  <2>3. PICK t : t = [i \in DOMAIN outs |-> w[outs[i]]]
    OBVIOUS
  <2>4. t \in [1..1 -> Nat] /\ t[1] = w[one]
    BY <1>3, <2>2, <2>3
  <2>5. Len(t) = 1
    BY ONLY <2>4
  <2>6. Sums(t)[0] = 0 /\ Sums(t)[1] = Sums(t)[0] + t[1]
    BY <2>5, SumsStep
  <2>7. Total(t) = w[one]
    BY <1>3, <2>4, <2>5, <2>6 DEF Total
  <2> QED BY <1>1, <1>2, <1>3, <1>4, <1>6, <2>2, <2>3, <2>7
<1> QED BY <1>5, <1>6

\* What check_tx needs of the transaction itself, without looking at a map.
WellFormed(tx, map) ==
    /\ tx.inputs \in Seq(DOMAIN map) /\ tx.outputs # <<>> /\ tx.data = NoData
    /\ Len(tx.witnesses) = Len(tx.inputs)
    /\ \A i, j \in DOMAIN tx.inputs : i # j => tx.inputs[i] # tx.inputs[j]
    /\ \A i \in DOMAIN tx.inputs :
          LET o == map[tx.inputs[i]].output
          IN  /\ tx.witnesses[i].pubkey = o.lock.pkh
              /\ Verify(o.lock.scheme, o.lock.pkh, Sighash(tx, i, o), tx.witnesses[i].sig)

LEMMA SignedPays ==
  ASSUME NEW pay \in Payments, NEW map, OwnMap(map), NEW sel, sel \subseteq DOMAIN map,
         NEW ins \in Orders(map, sel), pay.amount + pay.fee <= Amounts(map, sel),
         NEW tx, tx = Signed(pay, map, ins)
  PROVE  /\ Pays(tx, pay) /\ WellFormed(tx, map) /\ tx.inputs = ins
         /\ OutTotal(tx) + pay.fee = Amounts(map, sel) /\ OutTotal(tx) \in Nat
         /\ pay.amount > 0 => \A i \in DOMAIN tx.outputs : tx.outputs[i].amount # 0
<1>1. /\ pay.amount \in Nat /\ pay.fee \in Nat
      /\ IsFiniteSet(sel) /\ HasOutputs(map)
      /\ \A op \in DOMAIN map : Key(map[op].output) \in OwnedKeys
  BY WalletAssumption, FS_Subset DEF OwnMap, HasOutputs, Owns, Key
<1>2. /\ ins \in Seq(sel) /\ Len(ins) \in Nat /\ DOMAIN ins = 1..Len(ins)
      /\ ins = [i \in 1..Len(ins) |-> ins[i]]
      /\ \A i, j \in DOMAIN ins : ins[i] = ins[j] => i = j
      /\ {ins[i] : i \in DOMAIN ins} = sel
  BY <1>1, OrderFacts
<1>3. /\ Total([i \in DOMAIN ins |-> map[ins[i]].output.amount]) = Amounts(map, sel)
      /\ Amounts(map, sel) \in Nat
  BY <1>1, OrderTotal
<1>4. PICK change, outs : /\ change = Amounts(map, sel) - pay.amount - pay.fee
                          /\ outs = PaymentOutputs(pay, change)
  OBVIOUS
<1>5. change \in Nat /\ pay.amount + pay.fee + change = Amounts(map, sel)
  BY <1>1, <1>3, <1>4
<1>6. PICK sig : sig = [i \in DOMAIN ins |->
                          [scheme |-> map[ins[i]].output.lock.scheme,
                           pubkey |-> map[ins[i]].output.lock.pkh,
                           msg |-> <<<<"tx", ins, outs>>, i, map[ins[i]].output>>]]
  OBVIOUS
<1>7. tx = [txid |-> <<"tx", ins, outs>>, inputs |-> ins, outputs |-> outs, data |-> NoData,
            witnesses |-> [i \in DOMAIN ins |->
                             [pubkey |-> map[ins[i]].output.lock.pkh, sig |-> sig[i]]]]
  BY <1>2, <1>4, <1>6 DEF Signed, Sighash
<1>8. /\ tx.txid = <<"tx", ins, outs>> /\ tx.inputs = ins /\ tx.outputs = outs
      /\ tx.data = NoData /\ DOMAIN tx.witnesses = 1..Len(ins)
      /\ \A i \in DOMAIN ins : /\ tx.witnesses[i].pubkey = map[ins[i]].output.lock.pkh
                               /\ tx.witnesses[i].sig = sig[i]
  BY <1>2, <1>7
<1>9. \A i \in DOMAIN ins : ins[i] \in DOMAIN map /\ map[ins[i]].output \in Outputs
  BY <1>1, <1>2 DEF HasOutputs
<1>10. \A i \in DOMAIN ins : Claimed(tx, i) = map[ins[i]].output
  BY <1>6, <1>8 DEF Claimed
<1>11. PICK paid, back : /\ paid = Output(pay.amount, pay.to[1], pay.to[2])
                         /\ back = Output(change, "MlDsa", ChangeKey)
  OBVIOUS
<1>12. /\ paid \in Outputs /\ Key(paid) = pay.to /\ paid.amount = pay.amount
       /\ back \in Outputs /\ Key(back) \in OwnedKeys /\ back.amount = change
       /\ paid.lock.height = 0 /\ back.lock.height = 0
       /\ outs \in Seq(Outputs) /\ outs # <<>>
       /\ \A i \in DOMAIN outs : outs[i] = paid \/ (outs[i] = back /\ change > 0)
  BY <1>4, <1>5, <1>11, OwnAmountType, PaymentWeight
<1>13. \A w \in [Outputs -> Nat] :
          OutWeight(w, tx) = w[paid] + (IF change > 0 THEN w[back] ELSE 0)
  <2> SUFFICES ASSUME NEW w \in [Outputs -> Nat]
               PROVE  OutWeight(w, tx) = w[paid] + (IF change > 0 THEN w[back] ELSE 0)
    OBVIOUS
  <2>1. Total([i \in DOMAIN outs |-> w[outs[i]]])
          = w[paid] + (IF change > 0 THEN w[back] ELSE 0)
    BY ONLY <1>4, <1>5, <1>11, pay \in Payments, w \in [Outputs -> Nat], PaymentWeight
  <2> QED BY <1>8, <2>1 DEF OutWeight
<1>14. Shape(tx)
  <2>1. \A i \in DOMAIN tx.outputs : tx.outputs[i].lock.height = 0
    BY <1>8, <1>12
  <2>2. \A i \in DOMAIN tx.inputs :
          Claimed(tx, i) \in Outputs /\ Key(Claimed(tx, i)) \in OwnedKeys
    BY <1>1, <1>8, <1>9, <1>10
  <2>3. tx.txid = <<"tx", tx.inputs, tx.outputs>> /\ tx.outputs \in Seq(Outputs)
    BY <1>8, <1>12
  <2> QED BY <1>2, <1>8, <2>1, <2>2, <2>3 DEF Shape
<1>15. ChangeTotal(tx) = (IF pay.to \in OwnedKeys THEN pay.amount ELSE 0) + change
  <2>1. /\ OwnAmount[paid] = IF pay.to \in OwnedKeys THEN pay.amount ELSE 0
        /\ OwnAmount[back] = change
    BY <1>12 DEF OwnAmount
  <2>2. OwnAmount \in [Outputs -> Nat]
    BY OwnAmountType
  <2>3. OutWeight(OwnAmount, tx) = OwnAmount[paid] + (IF change > 0 THEN OwnAmount[back] ELSE 0)
    BY <1>13, <2>2
  <2> QED BY <1>1, <1>5, <2>1, <2>3 DEF ChangeTotal
<1>16. ClaimedTotal(tx) = Amounts(map, sel)
  <2>1. [i \in DOMAIN tx.inputs |-> Claimed(tx, i).amount]
          = [i \in DOMAIN ins |-> map[ins[i]].output.amount]
    BY <1>8, <1>10
  <2> QED BY <1>3, <2>1 DEF ClaimedTotal
<1>17. OutTotal(tx) = pay.amount + change
  <2>1. AmountOf[paid] = pay.amount /\ AmountOf[back] = change
    BY <1>12 DEF AmountOf
  <2>2. [i \in DOMAIN tx.outputs |-> tx.outputs[i].amount]
          = [i \in DOMAIN tx.outputs |-> AmountOf[tx.outputs[i]]]
    BY <1>8, <1>12 DEF AmountOf
  <2>3. OutWeight(AmountOf, tx) = AmountOf[paid] + (IF change > 0 THEN AmountOf[back] ELSE 0)
    BY <1>13, AmountWeight
  <2> QED BY <1>1, <1>5, <2>1, <2>2, <2>3 DEF OutTotal, OutWeight
<1>18. WellFormed(tx, map)
  <2>1. ins \in Seq(DOMAIN map)
    BY <1>2, <1>9
  <2>2. Len(tx.witnesses) = Len(ins)
    <3>1. PICK k, ws : k = Len(ins) /\ ws = tx.witnesses
      OBVIOUS
    <3>2. k \in Nat /\ DOMAIN ws = 1..k
      BY <1>2, <1>8, <3>1
    <3>3. Len(ws) = k
      BY ONLY <3>2
    <3> QED BY <3>1, <3>3
  <2>3. ASSUME NEW i \in DOMAIN ins
        PROVE  LET o == map[ins[i]].output
               IN  /\ tx.witnesses[i].pubkey = o.lock.pkh
                   /\ Verify(o.lock.scheme, o.lock.pkh, Sighash(tx, i, o), tx.witnesses[i].sig)
    BY <1>6, <1>8 DEF Verify, Sighash
  <2> QED BY <1>2, <1>8, <1>12, <2>1, <2>2, <2>3 DEF WellFormed
<1>19. pay.amount > 0 => \A i \in DOMAIN tx.outputs : tx.outputs[i].amount # 0
  BY <1>1, <1>5, <1>8, <1>12
<1>20. Pays(tx, pay)
  <2>1. PICK a, f, c, e, g : /\ a = pay.amount /\ f = pay.fee /\ c = Amounts(map, sel)
                             /\ e = (IF pay.to \in OwnedKeys THEN a ELSE 0) /\ g = ChangeTotal(tx)
    OBVIOUS
  <2>2. a \in Nat /\ f \in Nat /\ c \in Nat /\ a + f + change = c /\ g = e + change
    BY <1>1, <1>3, <1>5, <1>15, <2>1
  <2>3. PICK l : l = Leaves(pay)
    OBVIOUS
  <2>4. (e = a /\ l = 0 + f) \/ (e = 0 /\ l = a + f)
    BY <2>1, <2>3 DEF Leaves
  <2>5. g \in Nat /\ l + g = c
    BY ONLY <1>5, <2>2, <2>4
  <2> QED BY <1>3, <1>14, <1>16, <2>1, <2>3, <2>5 DEF Pays
<1> QED BY <1>1, <1>5, <1>8, <1>17, <1>18, <1>19, <1>20

-----------------------------------------------------------------------------
(***************************************************************************)
(* What a block does to the map.                                           *)
(***************************************************************************)
SpentBy(s)   == UNION {Spent(t) : t \in s}
CreatedBy(s) == UNION {Created(t) : t \in s}

\* Transactions of this wallet that are valid at h on map u, spend different
\* coins and create new ones.
Ready(ts, h, u) ==
    /\ IsFiniteSet(ts) /\ HasOutputs(u)
    /\ \A t \in ts : Paid(t) /\ Shape(t) /\ TxOk(t, h, u) /\ Created(t) \cap DOMAIN u = {}
    /\ \A t, v \in ts : t # v => Spent(t) \cap Spent(v) = {}

\* One of them finds its coins as they were, whichever were applied before.
Between(s, u, m) ==
    /\ HasOutputs(m)
    /\ DOMAIN m = (DOMAIN u \ SpentBy(s)) \cup CreatedBy(s)
    /\ \A op \in DOMAIN u \ SpentBy(s) : m[op] = u[op]
    /\ \A op \in CreatedBy(s) : \E t \in s : op \in Created(t)

LEMMA InputsFound ==
  ASSUME NEW t, Shape(t), NEW h, NEW u, TxOk(t, h, u)
  PROVE  /\ Spent(t) \subseteq DOMAIN u /\ Spent(t) # {}
         /\ \A i, j \in DOMAIN t.inputs : i # j => t.inputs[i] # t.inputs[j]
         /\ \A i \in DOMAIN t.inputs : /\ t.inputs[i] \in Spent(t)
                                       /\ u[t.inputs[i]].output = Claimed(t, i)
<1>1. \A i \in DOMAIN t.inputs : t.inputs[i] \in DOMAIN u
  BY DEF TxOk, InputOk
<1>2. Spent(t) \subseteq DOMAIN u
  BY <1>1 DEF Spent
<1>3. \A i, j \in DOMAIN t.inputs : i # j => t.inputs[i] # t.inputs[j]
  BY DEF TxOk
<1>4. ASSUME NEW i \in DOMAIN t.inputs
      PROVE  u[t.inputs[i]].output = Claimed(t, i)
  <2>1. PICK o, w : o = u[t.inputs[i]].output /\ w = t.witnesses[i]
    OBVIOUS
  <2>2. w.sig = [scheme |-> o.lock.scheme, pubkey |-> w.pubkey, msg |-> <<t.txid, i, o>>]
    BY <2>1 DEF TxOk, InputOk, Verify, Sighash
  <2>3. w.sig.msg = <<t.txid, i, o>>
    BY <2>2
  <2>4. w.sig.msg[3] = o
    BY <2>3
  <2> QED BY <2>1, <2>4 DEF Claimed
<1>5. Spent(t) # {}
  <2>1. t.inputs # <<>>
    BY DEF TxOk
  <2>2. PICK k, q : k = Len(t.inputs) /\ q = t.inputs
    OBVIOUS
  <2>3. k \in Nat /\ DOMAIN q = 1..k /\ q = [i \in 1..k |-> q[i]] /\ q # <<>>
    BY <2>1, <2>2 DEF Shape
  <2>4. k # 0
    BY ONLY <2>3
  <2>5. 1 \in DOMAIN t.inputs
    BY <2>2, <2>3, <2>4
  <2> QED BY <2>5 DEF Spent
<1> QED BY <1>2, <1>3, <1>4, <1>5 DEF Spent

\* Two of them have different ids.
LEMMA ReadyDiffer ==
  ASSUME NEW ts, NEW h, NEW u, Ready(ts, h, u), NEW t \in ts, NEW v \in ts, t # v
  PROVE  t.txid # v.txid /\ Created(t) \cap Created(v) = {}
<1>1. Shape(t) /\ Shape(v) /\ TxOk(t, h, u) /\ TxOk(v, h, u) /\ Spent(t) \cap Spent(v) = {}
  BY DEF Ready
<1>2. Spent(t) # {}
  BY <1>1, InputsFound
<1>3. t.inputs # v.inputs
  BY <1>1, <1>2 DEF Spent
<1>4. t.txid # v.txid
  BY <1>1, <1>3 DEF Shape
<1>5. /\ \A op \in Created(t) : op[1] = t.txid
      /\ \A op \in Created(v) : op[1] = v.txid
  BY <1>1, CreatedFinite DEF Shape
<1> QED BY <1>4, <1>5

LEMMA BetweenApplies ==
  ASSUME NEW ts, NEW h, NEW u, Ready(ts, h, u),
         NEW s, s \subseteq ts, NEW x \in ts \ s, NEW m, Between(s, u, m)
  PROVE  /\ Applies(x, m)
         /\ \A op \in Spent(x) : op \in DOMAIN u /\ m[op] = u[op]
         /\ InWeight(OwnAmount, x, m) = ClaimedTotal(x)
         /\ InTotal(x, m) = InTotal(x, u)
<1>1. /\ Shape(x) /\ TxOk(x, h, u) /\ Created(x) \cap DOMAIN u = {}
      /\ Spent(x) \subseteq DOMAIN u
      /\ \A i, j \in DOMAIN x.inputs : i # j => x.inputs[i] # x.inputs[j]
      /\ \A i \in DOMAIN x.inputs : /\ x.inputs[i] \in Spent(x)
                                    /\ u[x.inputs[i]].output = Claimed(x, i)
  BY InputsFound DEF Ready
<1>2. ASSUME NEW t \in s PROVE Spent(x) \cap Spent(t) = {} /\ Created(x) \cap Created(t) = {}
  BY <1>2, ReadyDiffer DEF Ready
<1>3. Spent(x) \cap SpentBy(s) = {} /\ Created(x) \cap CreatedBy(s) = {}
  BY <1>2 DEF SpentBy, CreatedBy
<1>4. \A op \in Spent(x) : op \in DOMAIN u /\ op \in DOMAIN m /\ m[op] = u[op]
  BY <1>1, <1>3 DEF Between
<1>5. Created(x) \cap DOMAIN m = {}
  BY <1>1, <1>3 DEF Between
<1>6. Applies(x, m)
  BY <1>1, <1>4, <1>5 DEF Applies, Between, Shape
<1>7. \A i \in DOMAIN x.inputs : m[x.inputs[i]].output = Claimed(x, i)
  BY <1>1, <1>4
<1>8. [i \in DOMAIN x.inputs |-> OwnAmount[m[x.inputs[i]].output]]
        = [i \in DOMAIN x.inputs |-> Claimed(x, i).amount]
  BY <1>1, <1>7 DEF OwnAmount, Shape
<1>9. [i \in DOMAIN x.inputs |-> m[x.inputs[i]].output.amount]
        = [i \in DOMAIN x.inputs |-> u[x.inputs[i]].output.amount]
  BY <1>1, <1>4
<1> QED BY <1>4, <1>6, <1>8, <1>9 DEF InWeight, ClaimedTotal, InTotal

\* What the payments in blocks cost together.
Bill(T)   == {[tx |-> t, cost |-> Cost(t)] : t \in T}
Billed(T) == SumFunction([c \in Bill(T) |-> c.cost])

LEMMA BilledType ==
  ASSUME NEW T, IsFiniteSet(T), \A t \in T : Cost(t) \in Nat
  PROVE  /\ IsFiniteSet(Bill(T)) /\ Billed(T) \in Nat
         /\ [c \in Bill(T) |-> c.cost] \in [Bill(T) -> Nat]
<1>1. PICK f, B : f = [t \in T |-> [tx |-> t, cost |-> Cost(t)]] /\ B = Bill(T)
  OBVIOUS
<1>2. f \in Surjection(T, B)
  BY <1>1 DEF Bill, Surjection
<1>3. IsFiniteSet(B)
  BY ONLY <1>2, IsFiniteSet(T), FS_Surjection
<1>4. [c \in B |-> c.cost] \in [B -> Nat]
  BY <1>1 DEF Bill
<1>5. SumFunction([c \in B |-> c.cost]) \in Nat
  BY <1>3, <1>4, SumType
<1> QED BY <1>1, <1>3, <1>4, <1>5 DEF Billed

LEMMA BilledAdd ==
  ASSUME NEW T, IsFiniteSet(T), \A t \in T : Cost(t) \in Nat,
         NEW x, x \notin T, Cost(x) \in Nat
  PROVE  Billed(T \cup {x}) = Billed(T) + Cost(x)
<1>1. PICK B, c, f, g : /\ B = Bill(T) /\ c = [tx |-> x, cost |-> Cost(x)]
                        /\ f = [b \in B |-> b.cost] /\ g = [b \in B \cup {c} |-> b.cost]
  OBVIOUS
<1>2. IsFiniteSet(B) /\ f \in [B -> Nat]
  BY <1>1, BilledType
<1>3. \A b \in B : b.tx \in T
  BY <1>1 DEF Bill
<1>4. c.tx = x /\ c.cost = Cost(x)
  BY <1>1
<1>5. c \notin B
  BY <1>3, <1>4
<1>6. \A b \in B : g[b] = f[b] /\ f[b] \in Nat
  BY <1>1, <1>2
<1>7. g \in [B \cup {c} -> Nat] /\ g[c] = Cost(x)
  BY <1>1, <1>4, <1>6
<1>8. SumFunction(g) = SumFunction(f) + g[c]
  BY <1>2, <1>5, <1>6, <1>7, SumAdd
<1>9. Bill(T \cup {x}) = B \cup {c}
  BY <1>1 DEF Bill
<1> QED BY <1>1, <1>7, <1>8, <1>9 DEF Billed

Held(u)     == SumFunction(Weighed(OwnAmount, u))
Fees(s, u)  == SumFunction([t \in s |-> Fee(t, u)])

LEMMA MapTotals ==
  ASSUME NEW u, HasOutputs(u)
  PROVE  /\ Held(u) \in Nat /\ UtxoTotal(u) \in Nat
         /\ UtxoTotal(u) = SumFunction(Weighed(AmountOf, u))
<1>1. SumFunction(Weighed(AmountOf, u)) \in Nat
  BY AmountWeight, WeighedType
<1>2. Held(u) \in Nat
  BY OwnAmountType, WeighedType DEF Held
<1> QED BY <1>1, <1>2, AmountWeight

\* What a transaction does to the money of the wallet and of everybody.
LEMMA TxMoves ==
  ASSUME NEW x, NEW m, Applies(x, m), NEW h, NEW cb, NEW n, n = ApplyTx(x, h, cb, m)
  PROVE  /\ HasOutputs(n)
         /\ Held(n) + InWeight(OwnAmount, x, m) = Held(m) + OutWeight(OwnAmount, x)
         /\ UtxoTotal(n) + InTotal(x, m) = UtxoTotal(m) + OutTotal(x)
<1>1. /\ HasOutputs(n)
      /\ Held(n) + InWeight(OwnAmount, x, m) = Held(m) + OutWeight(OwnAmount, x)
  BY OwnAmountType, ApplyTxMoves DEF Held
<1>2. SumFunction(Weighed(AmountOf, n)) + InWeight(AmountOf, x, m)
        = SumFunction(Weighed(AmountOf, m)) + OutWeight(AmountOf, x)
  BY AmountWeight, ApplyTxMoves
<1>3. HasOutputs(m)
  BY DEF Applies
<1>4. /\ UtxoTotal(n) = SumFunction(Weighed(AmountOf, n))
      /\ UtxoTotal(m) = SumFunction(Weighed(AmountOf, m))
  BY <1>1, <1>3, MapTotals
<1>5. InTotal(x, m) = InWeight(AmountOf, x, m) /\ OutTotal(x) = OutWeight(AmountOf, x)
  BY AmountsInOut
<1> QED BY <1>1, <1>2, <1>4, <1>5

\* The map m after the transactions s of a block, when those of conf are in
\* earlier ones.
Applied(s, m, h, u, conf) ==
    /\ Between(s, u, m)
    /\ \A op \in CreatedBy(s) : m[op] \in Utxos /\ m[op].output.lock.height = 0
    /\ Held(m) + Billed(conf \cup s) = Held(u) + Billed(conf)
    /\ UtxoTotal(m) + Fees(s, u) = UtxoTotal(u)
    /\ Fees(s, u) \in Nat

LEMMA FeeType ==
  ASSUME NEW ts, NEW h, NEW u, Ready(ts, h, u), NEW x \in ts
  PROVE  Fee(x, u) \in Nat /\ InTotal(x, u) = OutTotal(x) + Fee(x, u) /\ OutTotal(x) \in Nat
<1>1. Between({}, u, u)
  BY DEF Between, SpentBy, CreatedBy, Ready
<1>2. Applies(x, u)
  BY <1>1, BetweenApplies
<1>3. InTotal(x, u) \in Nat /\ OutTotal(x) \in Nat
  BY <1>2, AmountsInOut
<1>4. OutTotal(x) <= InTotal(x, u)
  BY DEF Ready, TxOk
<1> QED BY <1>3, <1>4 DEF Fee

LEMMA OneMore ==
  ASSUME NEW ts, NEW h \in Nat, NEW u, Ready(ts, h, u),
         NEW conf, IsFiniteSet(conf), \A t \in conf : Cost(t) \in Nat, conf \cap ts = {},
         NEW s, s \subseteq ts, NEW x \in ts \ s, NEW m, Applied(s, m, h, u, conf),
         NEW n, n = ApplyTx(x, h, FALSE, m)
  PROVE  Applied(s \cup {x}, n, h, u, conf)
<1>1. Between(s, u, m) /\ Shape(x) /\ Paid(x) /\ HasOutputs(m) /\ HasOutputs(u)
  BY DEF Applied, Ready, Between
<1>2. /\ Applies(x, m)
      /\ \A op \in Spent(x) : op \in DOMAIN u /\ m[op] = u[op]
      /\ InWeight(OwnAmount, x, m) = ClaimedTotal(x) /\ InTotal(x, m) = InTotal(x, u)
  BY <1>1, BetweenApplies
<1>3. IsFiniteSet(s) /\ IsFiniteSet(conf \cup s)
  BY FS_Subset, FS_Union DEF Ready
<1>4. /\ SpentBy(s \cup {x}) = SpentBy(s) \cup Spent(x)
      /\ CreatedBy(s \cup {x}) = CreatedBy(s) \cup Created(x)
  BY DEF SpentBy, CreatedBy
<1>5. /\ DOMAIN n = (DOMAIN m \ Spent(x)) \cup Created(x)
      /\ \A op \in Created(x) :
            n[op] = [output |-> x.outputs[op[2]], height |-> h, coinbase |-> FALSE]
      /\ \A op \in DOMAIN m \ Spent(x) : op \notin Created(x) => n[op] = m[op]
  BY DEF ApplyTx
<1>6. Created(x) \cap DOMAIN u = {} /\ Created(x) \cap DOMAIN m = {}
  BY <1>2 DEF Ready, Applies
<1>7. Spent(x) \cap CreatedBy(s) = {}
  <2>1. ASSUME NEW t \in s PROVE Created(t) \cap DOMAIN u = {}
    BY DEF Ready
  <2> QED BY <1>2, <2>1 DEF CreatedBy
<1>8. DOMAIN n = (DOMAIN u \ SpentBy(s \cup {x})) \cup CreatedBy(s \cup {x})
  BY <1>1, <1>4, <1>5, <1>7 DEF Between
<1>9. \A op \in DOMAIN u \ SpentBy(s \cup {x}) : n[op] = u[op]
  BY <1>1, <1>4, <1>5, <1>6 DEF Between
<1>10. /\ HasOutputs(n)
       /\ Held(n) + InWeight(OwnAmount, x, m) = Held(m) + OutWeight(OwnAmount, x)
       /\ UtxoTotal(n) + InTotal(x, m) = UtxoTotal(m) + OutTotal(x)
  BY <1>2, TxMoves
<1>11. Between(s \cup {x}, u, n)
  BY <1>8, <1>9, <1>10 DEF Between, CreatedBy
<1>12. \A op \in CreatedBy(s \cup {x}) : n[op] \in Utxos /\ n[op].output.lock.height = 0
  <2>1. ASSUME NEW op \in Created(x)
        PROVE  n[op] \in Utxos /\ n[op].output.lock.height = 0
    <3>1. op[2] \in DOMAIN x.outputs
      BY <1>1, CreatedFinite DEF Shape
    <3>2. PICK o : o = x.outputs[op[2]]
      OBVIOUS
    <3>3. o \in Outputs /\ o.lock.height = 0
      BY <1>1, <3>1, <3>2 DEF Shape
    <3>4. n[op] = [output |-> o, height |-> h, coinbase |-> FALSE]
      BY <1>5, <3>2
    <3>5. PICK c : c = n[op]
      OBVIOUS
    <3>6. c = [output |-> o, height |-> h, coinbase |-> FALSE]
      BY <3>4, <3>5
    <3>7. c.output = o
      BY ONLY <3>6
    <3>8. c \in Utxos
      BY ONLY <3>3, <3>6, h \in Nat DEF Utxos
    <3> QED BY <3>3, <3>5, <3>7, <3>8
  <2>2. ASSUME NEW op \in CreatedBy(s)
        PROVE  n[op] \in Utxos /\ n[op].output.lock.height = 0
    <3>1. op \in DOMAIN m \ Spent(x)
      BY <1>1, <1>7 DEF Between
    <3>2. n[op] = m[op]
      BY <1>5, <1>6, <3>1
    <3> QED BY <3>2 DEF Applied
  <2> QED BY <1>4, <2>1, <2>2
<1>13. Held(n) + Billed(conf \cup (s \cup {x})) = Held(u) + Billed(conf)
  <2>1. PICK pay : Pays(x, pay)
    BY <1>1 DEF Paid
  <2>2. ClaimedTotal(x) = ChangeTotal(x) + Cost(x) /\ Cost(x) \in Nat /\ ChangeTotal(x) \in Nat
    BY <2>1, PaysCost
  <2>3. \A t \in conf \cup s : Cost(t) \in Nat
    BY PaysCost DEF Ready, Paid
  <2>4. x \notin conf \cup s /\ conf \cup (s \cup {x}) = (conf \cup s) \cup {x}
    OBVIOUS
  <2>5. PICK T : T = conf \cup s
    OBVIOUS
  <2>6. Billed(T \cup {x}) = Billed(T) + Cost(x)
    BY <1>3, <2>2, <2>3, <2>4, <2>5, BilledAdd
  <2>7. Billed(T) \in Nat /\ Billed(conf) \in Nat
    BY <1>3, <2>3, <2>5, BilledType
  <2>8. Held(n) \in Nat /\ Held(m) \in Nat /\ Held(u) \in Nat
    BY <1>1, <1>10, MapTotals
  <2>9. Held(m) + Billed(T) = Held(u) + Billed(conf)
    BY <2>5 DEF Applied
  <2>10. PICK hn, hm, c, g : /\ hn = Held(n) /\ hm = Held(m)
                             /\ c = Cost(x) /\ g = ChangeTotal(x)
    OBVIOUS
  <2>11. hn + (g + c) = hm + g
    BY <1>2, <1>10, <2>2, <2>10 DEF ChangeTotal
  <2>12. hn \in Nat /\ hm \in Nat /\ c \in Nat /\ g \in Nat
    BY <2>2, <2>8, <2>10
  <2>13. hn + c = hm
    BY ONLY <2>11, <2>12
  <2>14. PICK bt, bc, bx, hu : /\ bt = Billed(T) /\ bc = Billed(conf) /\ hu = Held(u)
                               /\ bx = Billed(T \cup {x})
    OBVIOUS
  <2>15. bx = bt + c /\ hm + bt = hu + bc
    BY <2>6, <2>9, <2>10, <2>14
  <2>16. bt \in Nat /\ bc \in Nat /\ hu \in Nat
    BY <2>7, <2>8, <2>14
  <2>17. hn + bx = hu + bc
    BY ONLY <2>12, <2>13, <2>15, <2>16
  <2> QED BY <2>4, <2>5, <2>10, <2>14, <2>17
<1>14. Fees(s \cup {x}, u) = Fees(s, u) + Fee(x, u) /\ Fees(s \cup {x}, u) \in Nat
  <2>1. PICK f, g : f = [t \in s |-> Fee(t, u)] /\ g = [t \in s \cup {x} |-> Fee(t, u)]
    OBVIOUS
  <2>2. \A t \in s \cup {x} : Fee(t, u) \in Nat
    BY FeeType
  <2>3. f \in [s -> Nat] /\ g \in [s \cup {x} -> Nat] /\ \A t \in s : g[t] = f[t]
    BY <2>1, <2>2
  <2>4. SumFunction(g) = SumFunction(f) + g[x]
    <3>1. x \notin s
      OBVIOUS
    <3> QED BY ONLY <1>3, <2>3, <3>1, SumAdd
  <2>5. SumFunction(f) \in Nat /\ g[x] = Fee(x, u)
    BY <1>3, <2>1, <2>3, SumType
  <2> QED BY <2>1, <2>2, <2>4, <2>5 DEF Fees
<1>15. UtxoTotal(n) + Fees(s \cup {x}, u) = UtxoTotal(u)
  <2>1. UtxoTotal(n) \in Nat /\ UtxoTotal(m) \in Nat
    BY <1>1, <1>10, MapTotals
  <2>2. Fee(x, u) \in Nat /\ InTotal(x, u) = OutTotal(x) + Fee(x, u) /\ OutTotal(x) \in Nat
    BY FeeType
  <2>3. UtxoTotal(m) + Fees(s, u) = UtxoTotal(u) /\ Fees(s, u) \in Nat
    BY DEF Applied
  <2>4. PICK tn, tm, tu, fs, fx, o : /\ tn = UtxoTotal(n) /\ tm = UtxoTotal(m)
                                     /\ tu = UtxoTotal(u) /\ fs = Fees(s, u)
                                     /\ fx = Fee(x, u) /\ o = OutTotal(x)
    OBVIOUS
  <2>5. tn + (o + fx) = tm + o /\ tm + fs = tu
    BY <1>2, <1>10, <2>2, <2>3, <2>4
  <2>6. tn \in Nat /\ tm \in Nat /\ fs \in Nat /\ fx \in Nat /\ o \in Nat
    BY <2>1, <2>2, <2>3, <2>4
  <2>7. tn + (fs + fx) = tu
    BY ONLY <2>5, <2>6
  <2> QED BY <1>14, <2>4, <2>7
<1> QED BY <1>11, <1>12, <1>13, <1>14, <1>15 DEF Applied

LEMMA BlockApplies ==
  ASSUME NEW ts, NEW h \in Nat, NEW u, Ready(ts, h, u),
         NEW conf, IsFiniteSet(conf), \A t \in conf : Cost(t) \in Nat, conf \cap ts = {}
  PROVE  Applied(ts, ApplyAll(ts, h, u), h, u, conf)
<1>1. IsFiniteSet(ts) /\ HasOutputs(u)
  BY DEF Ready
<1>2. PICK r : r = Run(ts, h, u)
  OBVIOUS
<1>3. /\ r[{}] = u
      /\ \A s \in SUBSET ts : s # {} =>
            r[s] = SpendOne(Chosen(s), h, r[s \ {Chosen(s)}])
  <2>1. /\ Run(ts, h, u)[{}] = u
        /\ \A s \in SUBSET ts : s # {} =>
             Run(ts, h, u)[s] = SpendOne(Chosen(s), h, Run(ts, h, u)[s \ {Chosen(s)}])
    BY ONLY <1>1, RunStep
  <2> QED BY ONLY <1>2, <2>1
<1> DEFINE S == {n \in Nat : \A s \in SUBSET ts :
                               Cardinality(s) = n => Applied(s, r[s], h, u, conf)}
<1>4. \A s \in SUBSET ts : IsFiniteSet(s) /\ Cardinality(s) \in Nat
  BY <1>1, FS_Subset, FS_CardinalityType
<1>5. Applied({}, u, h, u, conf)
  <2>1. Between({}, u, u)
    BY <1>1 DEF Between, SpentBy, CreatedBy
  <2>2. Fees({}, u) = 0
    BY SumEmpty DEF Fees
  <2>3. UtxoTotal(u) \in Nat
    BY <1>1, AmountWeight, WeighedType
  <2>4. CreatedBy({}) = {} /\ conf \cup {} = conf
    BY DEF CreatedBy
  <2> QED BY <2>1, <2>2, <2>3, <2>4 DEF Applied
<1>6. 0 \in S
  BY <1>3, <1>4, <1>5, FS_EmptySet
<1>7. ASSUME NEW n \in Nat, n \in S PROVE n + 1 \in S
  <2> SUFFICES ASSUME NEW s \in SUBSET ts, Cardinality(s) = n + 1
               PROVE  Applied(s, r[s], h, u, conf)
    OBVIOUS
  <2>1. s # {}
    BY FS_EmptySet
  <2>2. PICK x, q : x = Chosen(s) /\ q = s \ {x}
    OBVIOUS
  <2>3. x \in s
    BY <2>1, <2>2 DEF Chosen
  <2>4. Cardinality(q) = n
    BY <1>4, <2>2, <2>3, Smaller
  <2>5. q \subseteq ts /\ x \in ts \ q /\ s = q \cup {x}
    BY <2>2, <2>3
  <2>6. Applied(q, r[q], h, u, conf)
    BY <1>7, <2>4, <2>5
  <2>7. r[s] = ApplyTx(x, h, FALSE, r[q])
    BY <1>3, <2>1, <2>2 DEF SpendOne
  <2>8. Applied(q \cup {x}, r[s], h, u, conf)
    BY <2>5, <2>6, <2>7, OneMore
  <2> QED BY <2>5, <2>8
<1>8. \A n \in Nat : n \in S
  <2> HIDE DEF S
  <2> QED BY <1>6, <1>7, NatSetInduction
<1>9. Applied(ts, r[ts], h, u, conf)
  BY <1>4, <1>8
<1> QED BY <1>2, <1>9, ApplyAllIsRun
-----------------------------------------------------------------------------
(***************************************************************************)
(* The invariant.                                                          *)
(***************************************************************************)
\* Coins are typed, and as many as were there and were issued since.
ChainOk(h, u) ==
    /\ h \in 0..MAX_HEIGHT
    /\ HasOutputs(u) /\ \A op \in DOMAIN u : u[op] \in Utxos
    /\ UtxoTotal(u) + BLOCK_REWARD[0] = UtxoTotal(START) + Issued[h]

\* The wallet can spend its coins at any height.
Open(u) == \A op \in DOMAIN u : Owns(u[op]) => u[op].output.lock.height = 0

\* Where coins come from, spent ones included: from before height 0, from the
\* coinbase of a block, or from a transaction in one.
Origin(id, h, conf) ==
    \/ id[1] = "old"
    \/ id[1] = "cb" /\ id[2] \in 1..h
    \/ \E t \in conf : id = t.txid

Placed(h, u, conf) ==
    /\ \A op \in DOMAIN u \cup SpentBy(conf) : Origin(op[1], h, conf)
    /\ SpentBy(conf) \cap DOMAIN u = {}
    /\ IsFiniteSet(conf) /\ \A t \in conf : Paid(t)

Chains ==
    /\ ChainOk(height, utxos) /\ ChainOk(saved.height, saved.utxos)
    /\ saved.height <= height
    /\ LocksReadable /\ (\E s \in Sessions : VIA[s] = "rpc") => Open(utxos)
    /\ Placed(height, utxos, confirmed)

\* The mempool holds transactions that can all go into the next block.
Pooled ==
    /\ IsFiniteSet(pool)
    /\ \A t \in pool : TxOk(t, height + 1, utxos)
    /\ \A t, v \in pool : t # v => Spent(t) \cap Spent(v) = {}

\* What the node has of the wallet was sent by a session.
Traced == \A t \in pool \cup files \cup confirmed : \E s \in Sent : session[s].tx = t

\* What a session can see now of the coins of its wallet.
View(s) == IF VIA[s] = "rpc" THEN OverRpc(OwnedUtxos(utxos)) ELSE OwnedUtxos(saved.utxos)

Asked(x) == x.pay.amount + x.pay.fee

\* A session that has fetched coins, here or earlier.
Holds(s, x) ==
    /\ OwnMap(x.map) /\ x.pay \in Payments
    /\ x.next \in Nat /\ x.next <= Behind(s).height + 1
    /\ x.next = Behind(s).height + 1 => x.map = View(s)

Short(x) == \E sel \in Selections(x.map, x.next, Asked(x)) : Amounts(x.map, sel) < Asked(x)

Made(x) ==
    \E sel \in Selections(x.map, x.next, Asked(x)) :
        /\ Asked(x) <= Amounts(x.map, sel)
        /\ \E ins \in Orders(x.map, sel) : x.tx = Signed(x.pay, x.map, ins)

SessionOk(s, x) ==
    /\ x.stage \in {"idle", "done", "fetched", "short", "built", "sent"}
    /\ x.stage \in {"fetched", "short", "built"} => Holds(s, x)
    /\ x.stage = "fetched" => x = [stage |-> "fetched", pay |-> x.pay, map |-> x.map,
                                   next |-> x.next]
    /\ x.stage = "short" => Short(x)
    /\ x.stage = "built" => Made(x)
    /\ x.stage = "sent"  => Pays(x.tx, x.pay)

Courses ==
    /\ session = [s \in Sessions |-> session[s]]
    /\ \A s \in Sessions : SessionOk(s, session[s])

Money ==
    /\ earned \in Nat
    /\ Held(utxos) + Billed(confirmed) = Held(START) + earned

WalletInv == Chains /\ Pooled /\ Traced /\ Courses /\ Money
-----------------------------------------------------------------------------
(***************************************************************************)
(* A block keeps coins where they belong and adds up.                      *)
(***************************************************************************)
\* A transaction that is valid now is in no block, and its coins are new.
LEMMA Fresh ==
  ASSUME NEW h, NEW u, NEW conf, Placed(h, u, conf),
         NEW t, Shape(t), NEW k, TxOk(t, k, u)
  PROVE  /\ t \notin conf /\ \A v \in conf : v.txid # t.txid
         /\ Created(t) \cap (DOMAIN u \cup SpentBy(conf)) = {}
<1>1. t.txid = <<"tx", t.inputs, t.outputs>> /\ t.outputs \in Seq(Outputs)
  BY DEF Shape
<1>2. Spent(t) \subseteq DOMAIN u /\ Spent(t) # {}
  BY InputsFound
<1>3. \A v \in conf : v.txid # t.txid
  <2> SUFFICES ASSUME NEW v \in conf, v.txid = t.txid PROVE FALSE
    OBVIOUS
  <2>1. v.txid = <<"tx", v.inputs, v.outputs>>
    BY DEF Placed, Paid, Pays, Shape
  <2>2. v.inputs = t.inputs
    BY <1>1, <2>1
  <2>3. Spent(v) = Spent(t)
    BY <2>2 DEF Spent
  <2>4. Spent(v) \cap DOMAIN u = {}
    BY DEF Placed, SpentBy
  <2> QED BY <1>2, <2>3, <2>4
<1>4. t.txid[1] = "tx"
  BY <1>1
<1>5. ASSUME NEW op \in Created(t) PROVE op \notin DOMAIN u \cup SpentBy(conf)
  <2>1. op[1] = t.txid
    BY <1>1, CreatedFinite
  <2>2. ~Origin(op[1], h, conf)
    BY <1>3, <1>4, <2>1 DEF Origin
  <2> QED BY <2>2 DEF Placed
<1> QED BY <1>3, <1>5

\* Any of the pooled transactions can be a block.
LEMMA PoolReady ==
  ASSUME NEW h, NEW u, HasOutputs(u), NEW conf, Placed(h, u, conf), NEW k,
         NEW ts, IsFiniteSet(ts), \A t \in ts : Paid(t) /\ TxOk(t, k, u),
         \A t, v \in ts : t # v => Spent(t) \cap Spent(v) = {}
  PROVE  Ready(ts, k, u) /\ conf \cap ts = {}
<1>1. \A t \in ts : Shape(t)
  BY DEF Paid, Pays
<1>2. ASSUME NEW t \in ts PROVE Created(t) \cap DOMAIN u = {} /\ t \notin conf
  BY <1>1, Fresh
<1> QED BY <1>1, <1>2 DEF Ready

Mint(cb, h, m) == ApplyTx(cb, h, TRUE, m)

Coinbase(h, reward, miner) ==
    [txid |-> <<"cb", h>>, inputs |-> <<>>,
     outputs |-> <<Output(reward, "MlDsa", miner)>>]

\* It pays output o and spends nothing.
CoinbaseIs(cb, h, reward, miner, o) ==
    /\ cb.txid = <<"cb", h>> /\ cb.outputs \in Seq(Outputs)
    /\ o \in Outputs /\ o.amount = reward /\ o.lock.height = 0
    /\ Key(o) = <<"MlDsa", miner>>
    /\ Len(cb.inputs) \in Nat /\ DOMAIN cb.inputs = 1..Len(cb.inputs)
    /\ cb.inputs = [i \in 1..Len(cb.inputs) |-> cb.inputs[i]]
    /\ DOMAIN cb.inputs = {} /\ Spent(cb) = {}
    /\ \A op \in Created(cb) : op[1] = <<"cb", h>> /\ cb.outputs[op[2]] = o
    /\ \A w \in [Outputs -> Nat] : OutWeight(w, cb) = w[o]
    /\ \A w, m : InWeight(w, cb, m) = 0
    /\ \A m : InTotal(cb, m) = 0
    /\ OutTotal(cb) = reward

LEMMA CoinbaseFacts ==
  ASSUME NEW h, NEW reward \in Nat, NEW miner \in Miners, NEW cb, cb = Coinbase(h, reward, miner),
         NEW o, o = Output(reward, "MlDsa", miner)
  PROVE  CoinbaseIs(cb, h, reward, miner, o)
<1>2. miner \in Keys
  BY WalletAssumption
<1>3. o \in Outputs /\ o.amount = reward /\ o.lock.height = 0 /\ Key(o) = <<"MlDsa", miner>>
  BY <1>2 DEF Output, Outputs, Locks, Key
<1>4. cb.txid = <<"cb", h>> /\ cb.inputs = <<>> /\ cb.outputs = <<o>>
  BY DEF Coinbase
<1>5. PICK ins, outs : ins = cb.inputs /\ outs = cb.outputs
  OBVIOUS
<1>6. ins = <<>> /\ outs = <<o>>
  BY <1>4, <1>5
<1>7. /\ outs \in Seq(Outputs) /\ Len(outs) = 1 /\ DOMAIN outs = 1..1 /\ outs[1] = o
  BY ONLY <1>3, <1>6
<1>8. Len(ins) = 0 /\ DOMAIN ins = {} /\ DOMAIN ins = 1..0 /\ ins = [i \in 1..0 |-> ins[i]]
  BY ONLY <1>6
<1>9. Spent(cb) = {}
  BY <1>5, <1>8 DEF Spent
<1>10. ASSUME NEW op \in Created(cb) PROVE op[1] = <<"cb", h>> /\ cb.outputs[op[2]] = o
  <2>1. op[1] = cb.txid /\ op[2] \in DOMAIN outs
    BY <1>5, <1>7, CreatedFinite
  <2>2. op[2] = 1
    BY <1>7, <2>1
  <2> QED BY <1>4, <1>5, <1>7, <2>1, <2>2
<1>11. ASSUME NEW w \in [Outputs -> Nat]
       PROVE  Total([i \in DOMAIN outs |-> w[outs[i]]]) = w[o]
  <2>1. PICK t : t = [i \in DOMAIN outs |-> w[outs[i]]]
    OBVIOUS
  <2>2. t \in [1..1 -> Nat] /\ t[1] = w[o]
    BY <1>3, <1>7, <2>1
  <2>3. Len(t) = 1
    BY ONLY <2>2
  <2>4. Sums(t)[0] = 0 /\ Sums(t)[1] = Sums(t)[0] + t[1]
    BY ONLY <2>3, SumsStep
  <2>5. Total(t) = w[o]
    BY <1>3, <2>2, <2>3, <2>4 DEF Total
  <2> QED BY <2>1, <2>5
<1>12. ASSUME NEW s, DOMAIN s = {}, s = [i \in {} |-> 0] PROVE Total(s) = 0
  <2>1. s = <<>>
    BY <1>12
  <2>2. Len(s) = 0
    BY ONLY <2>1
  <2>3. Sums(s)[0] = 0
    BY <2>2, SumsStep
  <2> QED BY <2>2, <2>3 DEF Total
<1>13. ASSUME NEW w, NEW m PROVE Total([i \in DOMAIN ins |-> w[m[ins[i]].output]]) = 0
  <2>1. [i \in DOMAIN ins |-> w[m[ins[i]].output]] = [i \in {} |-> 0]
    BY <1>8
  <2> QED BY <1>12, <2>1
<1>14. ASSUME NEW m PROVE Total([i \in DOMAIN ins |-> m[ins[i]].output.amount]) = 0
  <2>1. [i \in DOMAIN ins |-> m[ins[i]].output.amount] = [i \in {} |-> 0]
    BY <1>8
  <2> QED BY <1>12, <2>1
<1>15. OutTotal(cb) = reward
  <2>1. AmountOf \in [Outputs -> Nat] /\ AmountOf[o] = reward
    BY <1>3, AmountWeight DEF AmountOf
  <2>2. [i \in DOMAIN outs |-> AmountOf[outs[i]]] = [i \in DOMAIN outs |-> outs[i].amount]
    BY <1>3, <1>7 DEF AmountOf
  <2> QED BY <1>5, <1>11, <2>1, <2>2 DEF OutTotal
<1> QED BY <1>3, <1>4, <1>5, <1>7, <1>8, <1>9, <1>10, <1>11, <1>13, <1>14, <1>15
        DEF CoinbaseIs, OutWeight, InWeight, InTotal
\* The map after a block: its spends, then its coinbase.
LEMMA BlockStep ==
  ASSUME NEW h \in Nat, NEW u, ChainOk(h, u), h < MAX_HEIGHT,
         NEW conf, Placed(h, u, conf),
         NEW ts, IsFiniteSet(ts), \A t \in ts : Paid(t) /\ TxOk(t, h + 1, u),
         \A t, v \in ts : t # v => Spent(t) \cap Spent(v) = {},
         NEW miner \in Miners, NEW reward, reward = BLOCK_REWARD[h + 1] + Fees(ts, u),
         NEW n, n = Mint(Coinbase(h + 1, reward, miner), h + 1, ApplyAll(ts, h + 1, u))
  PROVE  /\ reward \in Nat
         /\ ChainOk(h + 1, n) /\ Placed(h + 1, n, conf \cup ts)
         /\ Open(u) => Open(n)
         /\ Held(n) + Billed(conf \cup ts)
              = Held(u) + Billed(conf)
                  + (IF <<"MlDsa", miner>> \in OwnedKeys THEN reward ELSE 0)
<1>1. PICK k, m, cb : /\ k = h + 1 /\ m = ApplyAll(ts, k, u)
                      /\ cb = Coinbase(k, reward, miner)
  OBVIOUS
<1>2. k \in Nat /\ k \in 1..MAX_HEIGHT /\ k \in 0..MAX_HEIGHT /\ h \in 0..MAX_HEIGHT /\ k - 1 = h
  BY <1>1, LedgerAssumption DEF ChainOk
<1>3. HasOutputs(u) /\ (\A op \in DOMAIN u : u[op] \in Utxos) /\ IsFiniteSet(conf)
  BY DEF ChainOk, Placed
<1>4. Ready(ts, k, u) /\ conf \cap ts = {}
  BY <1>1, <1>3, PoolReady
<1>5. \A t \in conf : Cost(t) \in Nat
  BY PaysCost DEF Placed, Paid
<1>6. Applied(ts, m, k, u, conf)
  BY <1>1, <1>2, <1>3, <1>4, <1>5, BlockApplies
<1>7. reward \in Nat
  BY <1>1, <1>2, <1>6, LedgerAssumption DEF Applied
<1>8. PICK o : o = Output(reward, "MlDsa", miner)
  OBVIOUS
<1>9. /\ cb.txid = <<"cb", k>> /\ cb.outputs \in Seq(Outputs)
      /\ o \in Outputs /\ o.amount = reward /\ o.lock.height = 0
      /\ Key(o) = <<"MlDsa", miner>>
      /\ Len(cb.inputs) \in Nat /\ DOMAIN cb.inputs = 1..Len(cb.inputs)
      /\ cb.inputs = [i \in 1..Len(cb.inputs) |-> cb.inputs[i]]
      /\ DOMAIN cb.inputs = {} /\ Spent(cb) = {}
      /\ \A op \in Created(cb) : op[1] = <<"cb", k>> /\ cb.outputs[op[2]] = o
      /\ \A w \in [Outputs -> Nat] : OutWeight(w, cb) = w[o]
      /\ \A w, v : InWeight(w, cb, v) = 0
      /\ \A v : InTotal(cb, v) = 0
      /\ OutTotal(cb) = reward
  <2>1. CoinbaseIs(cb, k, reward, miner, o)
    BY ONLY <1>1, <1>7, <1>8, miner \in Miners, CoinbaseFacts
  <2> QED BY ONLY <2>1 DEF CoinbaseIs
<1>10. /\ HasOutputs(m) /\ DOMAIN m = (DOMAIN u \ SpentBy(ts)) \cup CreatedBy(ts)
       /\ \A op \in DOMAIN u \ SpentBy(ts) : m[op] = u[op]
       /\ \A op \in CreatedBy(ts) : m[op] \in Utxos /\ m[op].output.lock.height = 0
       /\ Held(m) + Billed(conf \cup ts) = Held(u) + Billed(conf)
       /\ UtxoTotal(m) + Fees(ts, u) = UtxoTotal(u)
       /\ Fees(ts, u) \in Nat
  BY <1>6 DEF Applied, Between
<1>11. ASSUME NEW op \in CreatedBy(ts)
       PROVE  \E t \in ts : op[1] = t.txid /\ t.txid[1] = "tx" /\ op \in Created(t)
  <2>1. PICK t \in ts : op \in Created(t)
    BY <1>11 DEF CreatedBy
  <2>2. Shape(t)
    BY <1>4 DEF Ready
  <2>3. op[1] = t.txid
    BY <2>1, <2>2, CreatedFinite DEF Shape
  <2>4. t.txid[1] = "tx"
    BY <2>2 DEF Shape
  <2> QED BY <2>1, <2>3, <2>4
<1>12. ASSUME NEW op \in DOMAIN u \cup SpentBy(conf)
       PROVE  Origin(op[1], k, conf \cup ts) /\ op[1] # <<"cb", k>>
  <2>1. Origin(op[1], h, conf)
    BY <1>12 DEF Placed
  <2>2. ASSUME op[1] = <<"cb", k>> PROVE FALSE
    <3>1. op[1][1] = "cb" /\ op[1][2] = k
      BY <2>2
    <3>2. ~(k \in 1..h)
      BY <1>2
    <3>3. PICK t \in conf : op[1] = t.txid
      BY <2>1, <3>1, <3>2 DEF Origin
    <3>4. Shape(t)
      BY DEF Placed, Paid, Pays
    <3>5. t.txid[1] = "tx"
      BY <3>4 DEF Shape
    <3> QED BY <3>1, <3>3, <3>5
  <2>3. \A c \in 1..h : c \in 1..k
    BY <1>2
  <2> QED BY <2>1, <2>2, <2>3 DEF Origin
<1>13. Created(cb) \cap DOMAIN m = {}
  <2> SUFFICES ASSUME NEW op \in Created(cb), op \in DOMAIN m PROVE FALSE
    OBVIOUS
  <2>1. op[1] = <<"cb", k>>
    BY <1>9
  <2>2. op \in CreatedBy(ts)
    BY <1>10, <1>12, <2>1
  <2>3. op[1][1] = "tx"
    BY <1>11, <2>2
  <2> QED BY <2>1, <2>3
<1>14. Applies(cb, m)
  BY <1>9, <1>10, <1>13 DEF Applies
<1>15. n = ApplyTx(cb, k, TRUE, m)
  BY <1>1 DEF Mint
<1>16. /\ HasOutputs(n)
       /\ Held(n) + InWeight(OwnAmount, cb, m) = Held(m) + OutWeight(OwnAmount, cb)
       /\ UtxoTotal(n) + InTotal(cb, m) = UtxoTotal(m) + OutTotal(cb)
  BY <1>14, <1>15, TxMoves
<1>17. /\ DOMAIN n = DOMAIN m \cup Created(cb)
       /\ \A op \in Created(cb) :
             n[op] = [output |-> cb.outputs[op[2]], height |-> k, coinbase |-> TRUE]
       /\ \A op \in DOMAIN m : op \notin Created(cb) => n[op] = m[op]
  BY <1>9, <1>15 DEF ApplyTx
<1>18. ASSUME NEW op \in DOMAIN n
       PROVE  /\ n[op] \in Utxos
              /\ \/ op \in DOMAIN u /\ op \notin SpentBy(ts) /\ n[op] = u[op]
                 \/ op \in CreatedBy(ts) /\ n[op].output.lock.height = 0
                 \/ op \in Created(cb) /\ n[op].output.lock.height = 0
  <2>1. CASE op \in Created(cb)
    <3>1. PICK c : c = n[op]
      OBVIOUS
    <3>2. c = [output |-> o, height |-> k, coinbase |-> TRUE]
      BY <1>9, <1>17, <2>1, <3>1
    <3>3. c.output = o
      BY ONLY <3>2
    <3>4. c \in Utxos
      BY ONLY <3>2, <1>2, <1>9 DEF Utxos
    <3> QED BY <1>9, <2>1, <3>1, <3>3, <3>4
  <2>2. CASE op \notin Created(cb)
    <3>1. op \in DOMAIN m /\ n[op] = m[op]
      BY <1>17, <2>2
    <3>2. CASE op \in CreatedBy(ts)
      BY <1>10, <3>1, <3>2
    <3>3. CASE op \notin CreatedBy(ts)
      BY <1>3, <1>10, <3>1, <3>3
    <3> QED BY <3>2, <3>3
  <2> QED BY <2>1, <2>2
<1>19. Open(u) => Open(n)
  BY <1>18 DEF Open
<1>20. UtxoTotal(n) + BLOCK_REWARD[0] = UtxoTotal(START) + Issued[k]
  <2>1. PICK tn, tm, tu, f, b, z, st, i0, i1 :
          /\ tn = UtxoTotal(n) /\ tm = UtxoTotal(m) /\ tu = UtxoTotal(u) /\ f = Fees(ts, u)
          /\ b = BLOCK_REWARD[k] /\ z = BLOCK_REWARD[0] /\ st = UtxoTotal(START)
          /\ i0 = Issued[h] /\ i1 = Issued[k]
    OBVIOUS
  <2>2. i1 = i0 + b
    BY <1>2, <2>1, IssuedMonotone
  <2>3. tu + z = st + i0
    BY <2>1 DEF ChainOk
  <2>4. tn + 0 = tm + reward /\ tm + f = tu /\ reward = b + f
    BY <1>1, <1>9, <1>10, <1>16, <2>1
  <2>5. /\ tn \in Nat /\ tm \in Nat /\ tu \in Nat /\ f \in Nat /\ b \in Nat /\ z \in Nat
        /\ i0 \in Nat /\ i1 \in Nat
    <3>1. UtxoTotal(n) \in Nat /\ UtxoTotal(m) \in Nat /\ UtxoTotal(u) \in Nat
      BY ONLY <1>3, <1>10, <1>16, MapTotals
    <3>2. Issued[h] \in Nat /\ Issued[k] \in Nat
      BY ONLY <1>2, IssuedMonotone
    <3>3. BLOCK_REWARD[k] \in Nat /\ BLOCK_REWARD[0] \in Nat
      BY <1>2, LedgerAssumption
    <3> QED BY ONLY <1>10, <2>1, <3>1, <3>2, <3>3
  <2>6. st \in Nat
    BY <2>1, MapTotals, StartAssumption DEF HasOutputs, Utxos
  <2>7. tn + z = st + i1
    BY ONLY <2>2, <2>3, <2>4, <2>5, <2>6
  <2> QED BY <2>1, <2>7
<1>21. ChainOk(k, n)
  BY <1>2, <1>16, <1>18, <1>20 DEF ChainOk
<1>22. Placed(k, n, conf \cup ts)
  <2>1. SpentBy(conf \cup ts) = SpentBy(conf) \cup SpentBy(ts)
    BY DEF SpentBy
  <2>2. SpentBy(ts) \subseteq DOMAIN u
    BY <1>4, InputsFound DEF Ready, SpentBy
  <2>3. ASSUME NEW op \in DOMAIN n \cup SpentBy(conf \cup ts)
        PROVE  Origin(op[1], k, conf \cup ts)
    <3>1. CASE op \in DOMAIN u \cup SpentBy(conf)
      BY <1>12, <3>1
    <3>2. CASE op \in CreatedBy(ts)
      <4>1. PICK t \in ts : op[1] = t.txid
        BY <1>11, <3>2
      <4> QED BY <4>1 DEF Origin
    <3>3. CASE op \in Created(cb)
      <4>1. op[1] = <<"cb", k>>
        BY <1>9, <3>3
      <4>2. op[1][1] = "cb" /\ op[1][2] = k /\ k \in 1..k
        BY <1>2, <4>1
      <4> QED BY <4>2 DEF Origin
    <3> QED BY <1>18, <2>1, <2>2, <2>3, <3>1, <3>2, <3>3
  <2>4. ASSUME NEW op \in SpentBy(conf \cup ts), op \in DOMAIN n PROVE FALSE
    <3>1. CASE op \in DOMAIN u /\ op \notin SpentBy(ts)
      BY <2>1, <2>4, <3>1 DEF Placed
    <3>2. CASE op \in CreatedBy(ts)
      <4>1. PICK t \in ts : op \in Created(t)
        BY <1>11, <3>2
      <4>2. Created(t) \cap (DOMAIN u \cup SpentBy(conf)) = {}
        BY <1>1, <1>4, Fresh DEF Ready
      <4> QED BY <2>1, <2>2, <2>4, <4>1, <4>2
    <3>3. CASE op \in Created(cb)
      BY <1>9, <1>12, <2>1, <2>2, <2>4, <3>3
    <3> QED BY <1>18, <2>4, <3>1, <3>2, <3>3
  <2>5. IsFiniteSet(conf \cup ts) /\ \A t \in conf \cup ts : Paid(t)
    BY <1>3, FS_Union DEF Placed
  <2> QED BY <2>3, <2>4, <2>5 DEF Placed
<1>23. Held(n) + Billed(conf \cup ts)
         = Held(u) + Billed(conf)
             + (IF <<"MlDsa", miner>> \in OwnedKeys THEN reward ELSE 0)
  <2>1. PICK e : e = IF <<"MlDsa", miner>> \in OwnedKeys THEN reward ELSE 0
    OBVIOUS
  <2>2. e \in Nat /\ OwnAmount[o] = e
    BY <1>7, <1>9, <2>1 DEF OwnAmount
  <2>3. PICK hn, hm, hu, bc, bn : /\ hn = Held(n) /\ hm = Held(m) /\ hu = Held(u)
                                  /\ bc = Billed(conf) /\ bn = Billed(conf \cup ts)
    OBVIOUS
  <2>4. InWeight(OwnAmount, cb, m) = 0 /\ OutWeight(OwnAmount, cb) = e
    BY <1>9, <2>2, OwnAmountType
  <2>5. hn + 0 = hm + e /\ hm + bn = hu + bc
    BY <1>10, <1>16, <2>3, <2>4
  <2>6. hn \in Nat /\ hm \in Nat /\ hu \in Nat
    BY <1>3, <1>10, <1>16, <2>3, MapTotals
  <2>7. bc \in Nat /\ bn \in Nat
    <3>1. IsFiniteSet(conf \cup ts) /\ \A t \in conf \cup ts : Cost(t) \in Nat
      BY <1>3, <1>5, FS_Union, PaysCost DEF Paid
    <3> QED BY <1>3, <1>5, <2>3, <3>1, BilledType
  <2>8. hn + bn = hu + bc + e
    BY ONLY <2>2, <2>5, <2>6, <2>7
  <2> QED BY <2>1, <2>3, <2>8
<1> QED BY <1>1, <1>7, <1>19, <1>21, <1>22, <1>23
-----------------------------------------------------------------------------
(***************************************************************************)
(* Every step keeps the invariant.                                         *)
(***************************************************************************)
Unlocked(c) == [c EXCEPT !.output.lock.height = 0]

LEMMA UnlockedFacts ==
  ASSUME NEW c \in Utxos
  PROVE  /\ Unlocked(c) \in Utxos /\ Unlocked(c).output \in Outputs
         /\ Key(Unlocked(c).output) = Key(c.output)
         /\ c.output.lock.height = 0 => Unlocked(c) = c
<1>1. PICK o, l : o = c.output /\ l = o.lock
  OBVIOUS
<1>2. c = [output |-> o, height |-> c.height, coinbase |-> c.coinbase] /\ o \in Outputs
      /\ c.height \in Nat /\ c.coinbase \in BOOLEAN
  BY <1>1 DEF Utxos
<1>3. o = [amount |-> o.amount, lock |-> l] /\ l \in Locks /\ o.amount \in Nat
  BY <1>1, <1>2 DEF Outputs
<1>4. l = [scheme |-> l.scheme, pkh |-> l.pkh, height |-> l.height]
      /\ l.scheme \in {"MlDsa", "SlhDsa"} /\ l.pkh \in Keys /\ l.height \in Nat
  BY <1>3 DEF Locks
<1>5. PICK l0 : l0 = [l EXCEPT !.height = 0]
  OBVIOUS
<1>6. l0 = [scheme |-> l.scheme, pkh |-> l.pkh, height |-> 0]
  BY ONLY <1>4, <1>5
<1>7. PICK o0 : o0 = [o EXCEPT !.lock = l0]
  OBVIOUS
<1>8. o0 = [amount |-> o.amount, lock |-> l0]
  BY ONLY <1>3, <1>7
<1>9. PICK d : d = [c EXCEPT !.output = o0]
  OBVIOUS
<1>10. d = [output |-> o0, height |-> c.height, coinbase |-> c.coinbase]
  BY ONLY <1>2, <1>9
<1>11. Unlocked(c) = d
  BY <1>1, <1>5, <1>7, <1>9 DEF Unlocked
<1>12. l0 \in Locks
  BY ONLY <1>4, <1>6 DEF Locks
<1>13. o0 \in Outputs
  BY ONLY <1>3, <1>8, <1>12 DEF Outputs
<1>14. d \in Utxos /\ d.output = o0
  BY ONLY <1>2, <1>10, <1>13 DEF Utxos
<1>15. Key(o0) = Key(o)
  BY ONLY <1>1, <1>6, <1>8, <1>3, <1>4 DEF Key
<1>16. ASSUME l.height = 0 PROVE d = c
  <2>1. l0 = l
    BY ONLY <1>4, <1>6, <1>16
  <2>2. o0 = o
    BY ONLY <1>3, <1>8, <2>1
  <2> QED BY ONLY <1>2, <1>10, <2>2
<1> QED BY <1>1, <1>11, <1>13, <1>14, <1>15, <1>16

\* What a session sees are coins of the wallet, and when locks are readable
\* they are the coins of the chain.
LEMMA ViewFacts ==
  ASSUME Chains, NEW s \in Sessions
  PROVE  /\ OwnMap(View(s)) /\ DOMAIN View(s) \subseteq DOMAIN Behind(s).utxos
         /\ LocksReadable => \A op \in DOMAIN View(s) : View(s)[op] = Behind(s).utxos[op]
         /\ ChainOk(Behind(s).height, Behind(s).utxos)
<1>1. PICK u : u = Behind(s).utxos
  OBVIOUS
<1>2. ChainOk(Behind(s).height, u)
  BY <1>1 DEF Chains, Behind
<1>3. PICK v : v = OwnedUtxos(u)
  OBVIOUS
<1>4. /\ DOMAIN v \subseteq DOMAIN u
      /\ \A op \in DOMAIN v : v[op] = u[op] /\ Owns(v[op]) /\ v[op] \in Utxos
  BY <1>2, <1>3 DEF OwnedUtxos, ChainOk
<1>5. IsFiniteSet(DOMAIN v)
  BY <1>2, <1>4, FS_Subset DEF ChainOk, HasOutputs
<1>6. CASE VIA[s] = "rpc"
  <2>1. View(s) = [op \in DOMAIN v |-> Unlocked(v[op])] /\ u = utxos
    BY <1>1, <1>3, <1>6 DEF View, OverRpc, Unlocked, Behind
  <2>2. ASSUME NEW op \in DOMAIN v
        PROVE  /\ Unlocked(v[op]).output \in Outputs /\ Owns(Unlocked(v[op]))
               /\ LocksReadable => Unlocked(v[op]) = u[op]
    <3>1. /\ Unlocked(v[op]).output \in Outputs /\ Key(Unlocked(v[op]).output) = Key(v[op].output)
          /\ v[op].output.lock.height = 0 => Unlocked(v[op]) = v[op]
      BY <1>4, UnlockedFacts
    <3>2. Owns(Unlocked(v[op]))
      BY <1>4, <3>1 DEF Owns, Key
    <3>3. LocksReadable => v[op].output.lock.height = 0
      BY <1>4, <1>6, <2>1 DEF Chains, Open
    <3> QED BY <1>4, <3>1, <3>2, <3>3
  <2>3. OwnMap(View(s))
    BY <1>5, <2>1, <2>2 DEF OwnMap, HasOutputs
  <2> QED BY <1>1, <1>2, <1>4, <2>1, <2>2, <2>3
<1>7. CASE VIA[s] # "rpc"
  <2>1. View(s) = v
    BY <1>1, <1>3, <1>7 DEF View, Behind
  <2>2. OwnMap(v)
    BY <1>4, <1>5 DEF OwnMap, HasOutputs, Utxos
  <2> QED BY <1>1, <1>2, <1>4, <2>1, <2>2
<1> QED BY <1>6, <1>7

LEMMA NodePaid ==
  ASSUME WalletInv
  PROVE  \A t \in pool \cup files \cup confirmed : Paid(t)
<1> SUFFICES ASSUME NEW t \in pool \cup files \cup confirmed PROVE Paid(t)
  OBVIOUS
<1>1. PICK s \in Sessions : session[s].stage = "sent" /\ session[s].tx = t
  BY DEF WalletInv, Traced, Sent
<1>2. SessionOk(s, session[s])
  BY DEF WalletInv, Courses
<1>3. Pays(session[s].tx, session[s].pay)
  BY <1>1, <1>2 DEF SessionOk
<1>4. session[s].pay \in Payments
  BY <1>3 DEF Pays
<1> QED BY <1>1, <1>3, <1>4 DEF Paid

\* A step of one session.
LEMMA SessionMoves ==
  ASSUME WalletInv, UNCHANGED chain, NEW s \in Sessions, session[s].stage # "sent",
         NEW r, session' = [session EXCEPT ![s] = r], SessionOk(s, r), Pooled',
         \A t \in pool' \cup files' : t \in pool \cup files \/ (r.stage = "sent" /\ r.tx = t)
  PROVE  WalletInv'
<1>1. /\ height' = height /\ utxos' = utxos /\ saved' = saved
      /\ confirmed' = confirmed /\ earned' = earned
  BY DEF chain
<1>2. Chains'
  BY <1>1 DEF WalletInv, Chains
<1>3. Money'
  BY <1>1 DEF WalletInv, Money
<1>4. /\ session' = [x \in Sessions |-> session'[x]] /\ session'[s] = r
      /\ \A x \in Sessions : x # s => session'[x] = session[x]
  BY DEF WalletInv, Courses
<1>5. Traced'
  <2> SUFFICES ASSUME NEW t \in pool' \cup files' \cup confirmed'
               PROVE  \E x \in Sessions : session'[x].stage = "sent" /\ session'[x].tx = t
    BY DEF Traced, Sent
  <2>1. CASE r.stage = "sent" /\ r.tx = t
    BY <1>4, <2>1
  <2>2. CASE t \in pool \cup files \cup confirmed
    <3>1. PICK x \in Sessions : session[x].stage = "sent" /\ session[x].tx = t
      BY <2>2 DEF WalletInv, Traced, Sent
    <3> QED BY <1>4, <3>1
  <2> QED BY <1>1, <2>1, <2>2
<1>6. \A x \in Sessions : Behind(x)' = Behind(x) /\ View(x)' = View(x)
  BY <1>1 DEF Behind, View
<1>7. ASSUME NEW x \in Sessions PROVE SessionOk(x, session[x])' 
  <2>1. SessionOk(x, session'[x])
    BY <1>4 DEF WalletInv, Courses
  <2> QED BY <1>6, <2>1 DEF SessionOk, Holds
<1>8. Courses'
  BY <1>4, <1>7 DEF Courses
<1> QED BY <1>2, <1>3, <1>5, <1>8 DEF WalletInv

LEMMA FetchKeeps ==
  ASSUME WalletInv, NEW s \in Sessions, NEW pay \in Payments, Fetch(s, pay)
  PROVE  WalletInv'
<1>1. PICK r : /\ r = [stage |-> "fetched", pay |-> pay, map |-> View(s),
                       next |-> Behind(s).height + 1]
  OBVIOUS
<1>2. /\ session' = [session EXCEPT ![s] = r] /\ UNCHANGED chain
      /\ pool' = pool /\ files' = files /\ session[s].stage # "sent"
  BY <1>1 DEF Fetch, Becomes, View, Behind, Idle
<1>3. Chains
  BY DEF WalletInv
<1>4. OwnMap(View(s)) /\ Behind(s).height \in Nat
  BY <1>3, ViewFacts DEF ChainOk
<1>5. /\ r.stage = "fetched" /\ r.pay = pay /\ r.map = View(s) /\ r.next = Behind(s).height + 1
  BY <1>1
<1>6. Holds(s, r)
  BY <1>4, <1>5 DEF Holds
<1>7. SessionOk(s, r)
  BY <1>1, <1>5, <1>6 DEF SessionOk
<1>8. Pooled'
  BY <1>2 DEF WalletInv, Pooled, chain
<1> QED BY <1>2, <1>5, <1>7, <1>8, SessionMoves

LEMMA BuildKeeps ==
  ASSUME WalletInv, NEW s \in Sessions, Build(s)
  PROVE  WalletInv'
<1>1. PICK x : x = session[s]
  OBVIOUS
<1>2. /\ UNCHANGED chain /\ pool' = pool /\ files' = files /\ x.stage = "fetched"
  BY <1>1 DEF Build
<1>3. SessionOk(s, x)
  BY <1>1 DEF WalletInv, Courses
<1>4. /\ Holds(s, x)
      /\ x = [stage |-> "fetched", pay |-> x.pay, map |-> x.map, next |-> x.next]
  BY <1>2, <1>3 DEF SessionOk
<1>5. Pooled'
  BY <1>2 DEF WalletInv, Pooled, chain
<1>6. ASSUME NEW r, session' = [session EXCEPT ![s] = r], SessionOk(s, r)
      PROVE  WalletInv'
  BY <1>1, <1>2, <1>5, <1>6, SessionMoves
<1>7. CASE Becomes(s, Done(x.pay, "overflow"))
  <2>1. PICK r : r = [stage |-> "done", pay |-> x.pay, result |-> "overflow"]
    OBVIOUS
  <2>2. SessionOk(s, r)
    BY <2>1 DEF SessionOk
  <2> QED BY <1>6, <1>7, <2>1, <2>2 DEF Becomes, Done
<1>8. ASSUME NEW sel \in Selections(x.map, x.next, Asked(x)), Amounts(x.map, sel) < Asked(x),
             Becomes(s, [x EXCEPT !.stage = "short"])
      PROVE  WalletInv'
  <2>1. PICK r : r = [x EXCEPT !.stage = "short"]
    OBVIOUS
  <2>2. r = [stage |-> "short", pay |-> x.pay, map |-> x.map, next |-> x.next]
    BY <1>4, <2>1
  <2>3. r.stage = "short" /\ r.pay = x.pay /\ r.map = x.map /\ r.next = x.next
    BY <2>2
  <2>4. Holds(s, r)
    BY <1>4, <2>3 DEF Holds
  <2>5. Short(r)
    BY <1>8, <2>3 DEF Short, Asked
  <2>6. SessionOk(s, r)
    BY <2>3, <2>4, <2>5 DEF SessionOk
  <2> QED BY <1>6, <1>8, <2>1, <2>6 DEF Becomes
<1>9. ASSUME NEW sel \in Selections(x.map, x.next, Asked(x)), ~(Amounts(x.map, sel) < Asked(x)),
             NEW ins \in Orders(x.map, sel),
             Becomes(s, [stage |-> "built", pay |-> x.pay, map |-> x.map, next |-> x.next,
                         tx |-> Signed(x.pay, x.map, ins)])
      PROVE  WalletInv'
  <2>1. PICK r : r = [stage |-> "built", pay |-> x.pay, map |-> x.map, next |-> x.next,
                      tx |-> Signed(x.pay, x.map, ins)]
    OBVIOUS
  <2>2. /\ r.stage = "built" /\ r.pay = x.pay /\ r.map = x.map /\ r.next = x.next
        /\ r.tx = Signed(x.pay, x.map, ins)
    BY <2>1
  <2>3. Holds(s, r)
    BY <1>4, <2>2 DEF Holds
  <2>4. Asked(x) <= Amounts(x.map, sel)
    <3>1. sel \subseteq DOMAIN x.map
      BY DEF Selections
    <3>2. Amounts(x.map, sel) \in Nat
      BY <1>4, <1>9, <3>1, OrderTotal DEF Holds, OwnMap
    <3>3. Asked(x) \in Nat
      BY <1>4, WalletAssumption DEF Holds, Asked
    <3> QED BY <1>9, <3>2, <3>3
  <2>5. Made(r)
    BY <1>9, <2>2, <2>4 DEF Made, Asked
  <2>6. SessionOk(s, r)
    BY <2>2, <2>3, <2>5 DEF SessionOk
  <2> QED BY <1>6, <1>9, <2>1, <2>6 DEF Becomes
<1> QED BY <1>1, <1>7, <1>8, <1>9 DEF Build, Asked

LEMMA InsertKeeps ==
  ASSUME Pooled, UNCHANGED chain, NEW tx, Insert(tx)
  PROVE  Pooled' /\ \A t \in pool' : t \in pool \/ t = tx
<1>1. height' = height /\ utxos' = utxos
  BY DEF chain
<1>2. CASE Verdict(tx) # "ok"
  BY <1>1, <1>2 DEF Insert, Pooled
<1>3. CASE Verdict(tx) = "ok"
  <2>1. /\ pool' = pool \cup {tx} /\ TxOk(tx, height + 1, utxos)
        /\ \A t \in pool : Spent(t) \cap Spent(tx) = {}
    BY <1>3 DEF Insert, Verdict
  <2>2. IsFiniteSet(pool')
    BY <2>1, FS_AddElement DEF Pooled
  <2> QED BY <1>1, <2>1, <2>2 DEF Pooled
<1> QED BY <1>2, <1>3

\* The wallet hands over what it signed.
LEMMA BuiltPays ==
  ASSUME WalletInv, NEW s \in Sessions, session[s].stage = "built"
  PROVE  Pays(session[s].tx, session[s].pay)
<1>1. PICK x : x = session[s]
  OBVIOUS
<1>2. Holds(s, x) /\ Made(x)
  BY <1>1 DEF WalletInv, Courses, SessionOk
<1>3. PICK sel \in Selections(x.map, x.next, Asked(x)) :
          /\ Asked(x) <= Amounts(x.map, sel)
          /\ \E ins \in Orders(x.map, sel) : x.tx = Signed(x.pay, x.map, ins)
  BY <1>2 DEF Made
<1>4. PICK ins \in Orders(x.map, sel) : x.tx = Signed(x.pay, x.map, ins)
  BY <1>3
<1>5. sel \subseteq DOMAIN x.map
  BY <1>3 DEF Selections
<1>6. OwnMap(x.map) /\ x.pay \in Payments
  BY <1>2 DEF Holds
<1>7. x.pay.amount + x.pay.fee <= Amounts(x.map, sel)
  BY <1>3 DEF Asked
<1>8. Pays(x.tx, x.pay)
  BY <1>4, <1>5, <1>6, <1>7, SignedPays
<1> QED BY <1>1, <1>8

LEMMA SubmitKeeps ==
  ASSUME WalletInv, NEW s \in Sessions, Submit(s)
  PROVE  WalletInv'
<1>1. PICK r : r = [stage |-> "sent", pay |-> session[s].pay, tx |-> session[s].tx,
                    result |-> Verdict(session[s].tx)]
  OBVIOUS
<1>2. /\ session[s].stage = "built" /\ Insert(session[s].tx) /\ UNCHANGED chain
      /\ session' = [session EXCEPT ![s] = r] /\ files' = files
  BY <1>1 DEF Submit, Becomes
<1>3. Pays(session[s].tx, session[s].pay)
  BY <1>2, BuiltPays
<1>4. r.stage = "sent" /\ r.pay = session[s].pay /\ r.tx = session[s].tx
  BY <1>1
<1>5. SessionOk(s, r)
  BY <1>3, <1>4 DEF SessionOk
<1>6. Pooled' /\ \A t \in pool' : t \in pool \/ t = session[s].tx
  BY <1>2, InsertKeeps DEF WalletInv
<1> QED BY <1>2, <1>4, <1>5, <1>6, SessionMoves

LEMMA QueueKeeps ==
  ASSUME WalletInv, NEW s \in Sessions, Queue(s)
  PROVE  WalletInv'
<1>1. PICK tx, pay : tx = session[s].tx /\ pay = session[s].pay
  OBVIOUS
<1>2. session[s].stage = "built" /\ UNCHANGED chain /\ pool' = pool
  BY DEF Queue
<1>3. Pooled'
  BY <1>2 DEF WalletInv, Pooled, chain
<1>4. CASE TxOk(tx, session[s].next, session[s].map)
  <2>1. PICK r : r = [stage |-> "sent", pay |-> pay, tx |-> tx, result |-> "queued"]
    OBVIOUS
  <2>2. files' = files \cup {tx} /\ session' = [session EXCEPT ![s] = r]
    BY <1>1, <1>4, <2>1 DEF Queue, Becomes
  <2>3. r.stage = "sent" /\ r.pay = pay /\ r.tx = tx
    BY <2>1
  <2>4. SessionOk(s, r)
    BY <1>1, <1>2, <2>3, BuiltPays DEF SessionOk
  <2> QED BY <1>2, <1>3, <2>2, <2>3, <2>4, SessionMoves
<1>5. CASE ~TxOk(tx, session[s].next, session[s].map)
  <2>1. PICK r : r = [stage |-> "done", pay |-> pay, result |-> "invalid"]
    OBVIOUS
  <2>2. files' = files /\ session' = [session EXCEPT ![s] = r]
    BY <1>1, <1>5, <2>1 DEF Queue, Becomes, Done
  <2>3. SessionOk(s, r)
    BY <2>1 DEF SessionOk
  <2> QED BY <1>2, <1>3, <2>2, <2>3, SessionMoves
<1> QED BY <1>4, <1>5
LEMMA BridgeKeeps ==
  ASSUME WalletInv, NEW tx \in files, Bridge(tx)
  PROVE  WalletInv'
<1>1. UNCHANGED <<chain, session>> /\ Insert(tx) /\ files' \subseteq files
  BY DEF Bridge
<1>2. /\ height' = height /\ utxos' = utxos /\ saved' = saved /\ session' = session
      /\ confirmed' = confirmed /\ earned' = earned
  BY <1>1 DEF chain
<1>3. Pooled' /\ \A t \in pool' : t \in pool \/ t = tx
  BY <1>1, InsertKeeps DEF WalletInv
<1>4. Traced'
  BY <1>1, <1>2, <1>3 DEF WalletInv, Traced, Sent
<1>5. Chains' /\ Money'
  BY <1>2 DEF WalletInv, Chains, Money
<1>6. \A x \in Sessions : Behind(x)' = Behind(x) /\ View(x)' = View(x)
  BY <1>2 DEF Behind, View
<1>7. Courses'
  BY <1>2, <1>6 DEF WalletInv, Courses, SessionOk, Holds
<1> QED BY <1>3, <1>4, <1>5, <1>7 DEF WalletInv

LEMMA MineKeeps ==
  ASSUME WalletInv, NEW ts \in SUBSET pool, NEW miner \in Miners, MineBlock(ts, miner)
  PROVE  WalletInv'
<1>1. PICK reward, own : /\ reward = BLOCK_REWARD[height + 1] + Fees(ts, utxos)
                         /\ own = (<<"MlDsa", miner>> \in OwnedKeys)
  OBVIOUS
<1>2. /\ height < MAX_HEIGHT /\ height' = height + 1
      /\ utxos' = Mint(Coinbase(height + 1, reward, miner), height + 1,
                       ApplyAll(ts, height + 1, utxos))
  BY <1>1 DEF MineBlock, Fees, Mint, Coinbase
<1>3. /\ earned' = IF own THEN earned + reward ELSE earned
      /\ confirmed' = confirmed \cup ts
      /\ pool' = {t \in pool \ ts : TxOk(t, height' + 1, utxos')}
      /\ files' = files /\ session' = session
  BY <1>1 DEF MineBlock, Fees
<1>4. saved' = saved \/ saved' = [height |-> height + 1, utxos |-> utxos']
  BY DEF MineBlock
<1>5. /\ ChainOk(height, utxos) /\ Placed(height, utxos, confirmed) /\ height \in Nat
  BY DEF WalletInv, Chains, ChainOk
<1>6. /\ IsFiniteSet(ts) /\ \A t \in ts : Paid(t) /\ TxOk(t, height + 1, utxos)
      /\ \A t, v \in ts : t # v => Spent(t) \cap Spent(v) = {}
  BY NodePaid, FS_Subset DEF WalletInv, Pooled
<1>7. PICK h, u, n, conf : h = height /\ u = utxos /\ n = utxos' /\ conf = confirmed
  OBVIOUS
<1>8. /\ reward \in Nat
      /\ ChainOk(h + 1, n) /\ Placed(h + 1, n, conf \cup ts)
      /\ Open(u) => Open(n)
      /\ Held(n) + Billed(conf \cup ts)
           = Held(u) + Billed(conf) + (IF <<"MlDsa", miner>> \in OwnedKeys THEN reward ELSE 0)
  <2>1. /\ h \in Nat /\ ChainOk(h, u) /\ h < MAX_HEIGHT /\ Placed(h, u, conf)
        /\ \A t \in ts : Paid(t) /\ TxOk(t, h + 1, u)
        /\ reward = BLOCK_REWARD[h + 1] + Fees(ts, u)
        /\ n = Mint(Coinbase(h + 1, reward, miner), h + 1, ApplyAll(ts, h + 1, u))
    BY <1>1, <1>2, <1>5, <1>6, <1>7
  <2> QED BY ONLY <1>6, <2>1, miner \in Miners, BlockStep
<1>9. Money'
  <2>1. PICK a, b, c, e : /\ a = Held(n) + Billed(conf \cup ts) /\ b = Held(u) + Billed(conf)
                          /\ c = Held(START) /\ e = earned
    OBVIOUS
  <2>2. a = b + (IF own THEN reward ELSE 0) /\ b = c + e /\ e \in Nat
    BY <1>1, <1>7, <1>8, <2>1 DEF WalletInv, Money
  <2>3. c \in Nat
    BY <2>1, MapTotals, StartAssumption DEF HasOutputs, Utxos
  <2>4. earned' = IF own THEN e + reward ELSE e
    BY <1>3, <2>1
  <2>5. earned' \in Nat /\ a = c + earned'
    BY ONLY <1>8, <2>2, <2>3, <2>4
  <2> QED BY <1>3, <1>7, <2>1, <2>5 DEF Money
<1>10. /\ ChainOk(saved'.height, saved'.utxos) /\ saved'.height <= height'
       /\ saved'.height \in Nat
       /\ saved' = saved \/ (saved'.height = height + 1 /\ saved.height <= height)
  <2>1. CASE saved' = saved
    BY <1>2, <1>5, <2>1 DEF WalletInv, Chains, ChainOk
  <2>2. CASE saved' = [height |-> height + 1, utxos |-> utxos']
    <3>1. saved'.height = height + 1 /\ saved'.utxos = utxos'
      BY <2>2
    <3> QED BY <1>2, <1>5, <1>7, <1>8, <3>1 DEF WalletInv, Chains
  <2> QED BY <1>4, <2>1, <2>2
<1>11. Chains'
  BY <1>2, <1>3, <1>7, <1>8, <1>10 DEF WalletInv, Chains, LocksReadable
<1>12. Pooled'
  BY <1>3, FS_Subset DEF WalletInv, Pooled
<1>13. Traced'
  BY <1>3 DEF WalletInv, Traced, Sent
<1>14. ASSUME NEW s \in Sessions, NEW x, Holds(s, x)
       PROVE  Holds(s, x)'
  <2>1. saved.height \in Nat /\ x.next \in Nat /\ x.next <= Behind(s).height + 1
    BY <1>14 DEF WalletInv, Chains, ChainOk, Holds
  <2>2. CASE VIA[s] = "rpc"
    <3>1. Behind(s).height = height /\ Behind(s)'.height = height + 1
      BY <1>2, <2>2 DEF Behind
    <3>2. x.next <= Behind(s)'.height + 1 /\ x.next # Behind(s)'.height + 1
      BY <1>5, <2>1, <3>1
    <3> QED BY <1>14, <3>2 DEF Holds
  <2>3. CASE VIA[s] # "rpc" /\ saved' # saved
    <3>1. Behind(s).height = saved.height /\ Behind(s)'.height = height + 1
      BY <1>10, <2>3 DEF Behind
    <3>2. x.next <= Behind(s)'.height + 1 /\ x.next # Behind(s)'.height + 1
      BY <1>5, <1>10, <2>1, <2>3, <3>1
    <3> QED BY <1>14, <3>2 DEF Holds
  <2>4. CASE VIA[s] # "rpc" /\ saved' = saved
    BY <1>14, <2>4 DEF Holds, Behind, View
  <2> QED BY <2>2, <2>3, <2>4
<1>15. ASSUME NEW s \in Sessions, SessionOk(s, session[s])
       PROVE  SessionOk(s, session[s])'
  <2>1. PICK x : x = session[s]
    OBVIOUS
  <2>2. session'[s] = x /\ (Holds(s, x) => Holds(s, x)')
    BY <1>3, <1>14, <2>1
  <2> QED BY <1>15, <2>1, <2>2 DEF SessionOk, Holds
<1>16. Courses'
  BY <1>3, <1>15 DEF WalletInv, Courses
<1> QED BY <1>9, <1>11, <1>12, <1>13, <1>16 DEF WalletInv

LEMMA InitInv == Init => WalletInv
<1> SUFFICES ASSUME Init PROVE WalletInv
  OBVIOUS
<1>1. /\ height = 0 /\ utxos = START /\ saved = [height |-> 0, utxos |-> START]
      /\ pool = {} /\ files = {} /\ confirmed = {} /\ earned = 0
      /\ session = [s \in Sessions |-> Idle]
  BY DEF Init
<1>2. saved.height = 0 /\ saved.utxos = START
  BY <1>1
<1>3. HasOutputs(START) /\ \A op \in DOMAIN START : START[op] \in Utxos
  BY StartAssumption DEF HasOutputs, Utxos
<1>4. ChainOk(0, START)
  <2>1. Issued[0] = BLOCK_REWARD[0] /\ 0 \in 0..MAX_HEIGHT
    BY IssuedMonotone, LedgerAssumption
  <2> QED BY <1>3, <2>1 DEF ChainOk
<1>5. Placed(0, START, {})
  <2>1. SpentBy({}) = {}
    BY DEF SpentBy
  <2>2. ASSUME NEW op \in DOMAIN START PROVE op[1][1] = "old"
    <3>1. PICK id, v : op = <<id, v>> /\ id \in {"old"} \X Nat
      BY StartAssumption
    <3> QED BY <3>1
  <2>3. IsFiniteSet({})
    BY FS_EmptySet
  <2> QED BY <2>1, <2>2, <2>3 DEF Placed, Origin
<1>6. Chains
  BY <1>1, <1>2, <1>4, <1>5 DEF Chains, LocksReadable, Open
<1>7. Pooled
  BY <1>1, FS_EmptySet DEF Pooled
<1>8. Traced
  BY <1>1 DEF Traced
<1>9. Courses
  BY <1>1 DEF Courses, SessionOk, Idle
<1>10. Money
  <2>1. Billed({}) = 0
    <3>1. Bill({}) = {}
      BY DEF Bill
    <3> QED BY <3>1, SumEmpty DEF Billed
  <2>2. Held(START) \in Nat
    BY <1>3, MapTotals
  <2> QED BY <1>1, <2>1, <2>2 DEF Money
<1> QED BY <1>6, <1>7, <1>8, <1>9, <1>10 DEF WalletInv

LEMMA NextKeeps == WalletInv /\ [Next]_vars => WalletInv'
<1> SUFFICES ASSUME WalletInv, [Next]_vars PROVE WalletInv'
  OBVIOUS
<1>1. ASSUME NEW s \in Sessions, NEW pay \in Payments, Fetch(s, pay) PROVE WalletInv'
  BY <1>1, FetchKeeps
<1>2. ASSUME NEW s \in Sessions, Build(s) PROVE WalletInv'
  BY <1>2, BuildKeeps
<1>3. ASSUME NEW s \in Sessions, Submit(s) PROVE WalletInv'
  BY <1>3, SubmitKeeps
<1>4. ASSUME NEW s \in Sessions, Queue(s) PROVE WalletInv'
  BY <1>4, QueueKeeps
<1>5. ASSUME NEW tx \in files, Bridge(tx) PROVE WalletInv'
  BY <1>5, BridgeKeeps
<1>6. ASSUME NEW ts \in SUBSET pool, NEW m \in Miners, MineBlock(ts, m) PROVE WalletInv'
  BY <1>6, MineKeeps
<1>7. CASE UNCHANGED vars
  <2>1. /\ height' = height /\ utxos' = utxos /\ saved' = saved /\ session' = session
        /\ confirmed' = confirmed /\ earned' = earned /\ pool' = pool /\ files' = files
    BY <1>7 DEF vars
  <2>2. \A x \in Sessions : Behind(x)' = Behind(x) /\ View(x)' = View(x)
    BY <2>1 DEF Behind, View
  <2>3. Courses'
    BY <2>1, <2>2 DEF WalletInv, Courses, SessionOk, Holds
  <2> QED BY <2>1, <2>3 DEF WalletInv, Chains, Pooled, Traced, Sent, Money
<1> QED BY <1>1, <1>2, <1>3, <1>4, <1>5, <1>6, <1>7 DEF Next

LEMMA Invariant == Spec => []WalletInv
BY InitInv, NextKeeps, PTL DEF Spec
-----------------------------------------------------------------------------
(***************************************************************************)
(* What follows from it.                                                   *)
(***************************************************************************)
\* Some coins of a map are worth no more than all of them.
LEMMA AmountsPart ==
  ASSUME NEW map, HasOutputs(map), NEW all, all \subseteq DOMAIN map, NEW some, some \subseteq all
  PROVE  /\ Amounts(map, some) \in Nat /\ Amounts(map, all) \in Nat
         /\ Amounts(map, some) <= Amounts(map, all)
<1>1. PICK f : f = [op \in all |-> map[op].output.amount]
  OBVIOUS
<1>2. f \in [all -> Nat] /\ IsFiniteSet(all)
  BY <1>1, OwnAmountType, FS_Subset DEF HasOutputs
<1>3. PICK g : g = [op \in some |-> f[op]]
  OBVIOUS
<1>4. SumFunction(g) \in Nat /\ SumFunction(g) <= SumFunction(f) /\ SumFunction(f) \in Nat
  BY <1>2, <1>3, SumPart, SumType
<1>5. g = [op \in some |-> map[op].output.amount]
  BY <1>1, <1>3
<1> QED BY <1>1, <1>4, <1>5 DEF Amounts

\* What the wallet's coins are worth.
LEMMA HeldAmounts ==
  ASSUME NEW u, HasOutputs(u)
  PROVE  Amounts(u, DOMAIN OwnedUtxos(u)) = Held(u)
<1>1. PICK D, E, f : /\ D = DOMAIN u /\ E = {op \in DOMAIN u : Owns(u[op])}
                     /\ f = Weighed(OwnAmount, u)
  OBVIOUS
<1>2. f \in [D -> Nat] /\ IsFiniteSet(D) /\ E \subseteq D
  BY <1>1, OwnAmountType, WeighedType DEF HasOutputs
<1>3. \A op \in D : f[op] = IF op \in E THEN u[op].output.amount ELSE 0
  BY <1>1 DEF Weighed, OwnAmount, HasOutputs, Owns, Key
<1>4. SumFunction([op \in E |-> f[op]]) = SumFunction(f)
  BY <1>2, <1>3, SumPart
<1>5. [op \in E |-> f[op]] = [op \in E |-> u[op].output.amount]
  BY <1>2, <1>3
<1>6. DOMAIN OwnedUtxos(u) = E
  BY <1>1 DEF OwnedUtxos
<1> QED BY <1>1, <1>4, <1>5, <1>6 DEF Amounts, Held

LEMMA CostsBill ==
  ASSUME WalletInv
  PROVE  Costs = Bill(confirmed)
<1>1. ASSUME NEW s \in Sessions, session[s].stage = "sent"
      PROVE  Cost(session[s].tx) = Leaves(session[s].pay)
  <2>1. SessionOk(s, session[s])
    BY DEF WalletInv, Courses
  <2>2. Pays(session[s].tx, session[s].pay)
    BY <1>1, <2>1 DEF SessionOk
  <2> QED BY <2>2, PaysCost
<1>2. ASSUME NEW c \in Costs PROVE c \in Bill(confirmed)
  <2>1. PICK s \in Sessions :
          /\ session[s].stage = "sent" /\ session[s].tx \in confirmed
          /\ c = [tx |-> session[s].tx, cost |-> Leaves(session[s].pay)]
    BY DEF Costs, Sent
  <2> QED BY <1>1, <2>1 DEF Bill
<1>3. ASSUME NEW c \in Bill(confirmed) PROVE c \in Costs
  <2>1. PICK t \in confirmed : c = [tx |-> t, cost |-> Cost(t)]
    BY DEF Bill
  <2>2. PICK s \in Sessions : session[s].stage = "sent" /\ session[s].tx = t
    BY DEF WalletInv, Traced, Sent
  <2> QED BY <1>1, <2>1, <2>2 DEF Costs, Sent
<1> QED BY <1>2, <1>3

LEMMA InvHoldings == WalletInv => HoldingsExact
<1> SUFFICES ASSUME WalletInv PROVE HoldingsExact
  OBVIOUS
<1>1. HasOutputs(utxos) /\ HasOutputs(START)
  BY StartAssumption DEF WalletInv, Chains, ChainOk, HasOutputs, Utxos
<1>2. PICK a, b, c, e : /\ a = Held(utxos) /\ b = Billed(confirmed)
                        /\ c = Held(START) /\ e = earned
  OBVIOUS
<1>3. a + b = c + e /\ e \in Nat
  BY <1>2 DEF WalletInv, Money
<1>4. a \in Nat /\ c \in Nat
  BY <1>1, <1>2, MapTotals
<1>5. b \in Nat
  <2>1. IsFiniteSet(confirmed) /\ \A t \in confirmed : Cost(t) \in Nat
    BY PaysCost DEF WalletInv, Chains, Placed, Paid
  <2> QED BY <1>2, <2>1, BilledType
<1>6. a = c + e - b
  BY ONLY <1>3, <1>4, <1>5
<1>7. SumFunction([x \in Costs |-> x.cost]) = b
  BY <1>2, CostsBill DEF Billed
<1> QED BY <1>1, <1>2, <1>6, <1>7, HeldAmounts DEF HoldingsExact

LEMMA InvBalance == WalletInv => BalanceIsPayable
<1> SUFFICES ASSUME WalletInv, NEW s \in Sessions, NEW x, x = session[s]
             PROVE  /\ x.stage = "short" => ~(Asked(x) <= Balance(x.map, x.next))
                    /\ x.stage = "built" => Asked(x) <= Balance(x.map, x.next)
  BY DEF BalanceIsPayable, Asked
<1>1. SessionOk(s, x)
  BY DEF WalletInv, Courses
<1>2. PICK coins : coins = {op \in DOMAIN x.map : Spendable(x.map[op], x.next)}
  OBVIOUS
<1>3. Balance(x.map, x.next) = Amounts(x.map, coins)
  BY <1>2 DEF Balance
<1>4. ASSUME x.stage \in {"short", "built"}
      PROVE  HasOutputs(x.map) /\ coins \subseteq DOMAIN x.map /\ Asked(x) \in Nat
  BY <1>1, <1>2, <1>4, WalletAssumption DEF SessionOk, Holds, OwnMap, Asked
<1>5. ASSUME NEW sel \in Selections(x.map, x.next, Asked(x))
      PROVE  /\ sel \subseteq coins
             /\ Amounts(x.map, sel) >= Asked(x) \/ sel = coins
  BY <1>2 DEF Selections
<1>6. CASE x.stage = "short"
  <2>1. PICK sel \in Selections(x.map, x.next, Asked(x)) : Amounts(x.map, sel) < Asked(x)
    BY <1>1, <1>6 DEF SessionOk, Short
  <2>2. Amounts(x.map, sel) \in Nat /\ Asked(x) \in Nat
    BY <1>4, <1>5, <1>6, AmountsPart
  <2>3. sel = coins
    BY <1>5, <2>1, <2>2
  <2> QED BY <1>3, <1>6, <2>1, <2>2, <2>3
<1>7. CASE x.stage = "built"
  <2>1. PICK sel \in Selections(x.map, x.next, Asked(x)) : Asked(x) <= Amounts(x.map, sel)
    BY <1>1, <1>7 DEF SessionOk, Made
  <2>2. /\ Amounts(x.map, sel) \in Nat /\ Amounts(x.map, coins) \in Nat /\ Asked(x) \in Nat
        /\ Amounts(x.map, sel) <= Amounts(x.map, coins)
    BY <1>4, <1>5, <1>7, AmountsPart
  <2> QED BY <1>3, <1>7, <2>1, <2>2
<1> QED BY <1>6, <1>7

\* All the coins of a chain state fit a u64.
LEMMA CoinsFit ==
  ASSUME NEW h, NEW u, ChainOk(h, u), NEW all, all \subseteq DOMAIN u
  PROVE  Amounts(u, all) <= MAX_U64
<1>1. /\ HasOutputs(u) /\ h \in 0..MAX_HEIGHT
      /\ UtxoTotal(u) + BLOCK_REWARD[0] = UtxoTotal(START) + Issued[h]
  BY DEF ChainOk
<1>2. PICK a, t, z, c, i, j, m : /\ a = Amounts(u, all) /\ t = UtxoTotal(u)
                                 /\ z = BLOCK_REWARD[0] /\ c = UtxoTotal(START)
                                 /\ i = Issued[h] /\ j = Issued[MAX_HEIGHT] /\ m = MAX_U64
  OBVIOUS
<1>3. Amounts(u, DOMAIN u) = t
  BY <1>2 DEF Amounts, UtxoTotal
<1>4. a \in Nat /\ t \in Nat /\ a <= t
  BY <1>1, <1>2, <1>3, AmountsPart
<1>5. z \in Nat /\ i \in Nat /\ j \in Nat /\ i <= j /\ m \in Nat
  BY <1>1, <1>2, IssuedMonotone, LedgerAssumption
<1>6. c \in Nat
  BY <1>2, MapTotals, StartAssumption DEF HasOutputs, Utxos
<1>7. t + z = c + i /\ c + j <= m
  BY <1>1, <1>2, CoinsAssumption
<1>8. a <= m
  BY ONLY <1>4, <1>5, <1>6, <1>7
<1> QED BY <1>2, <1>8

LEMMA InvSigned == LocksReadable /\ WalletInv => BuiltIsValid
<1> SUFFICES ASSUME LocksReadable, WalletInv, NEW s \in Sessions, NEW x, x = session[s],
                    x.stage = "built", x.pay.amount > 0, x.next = Behind(s).height + 1
             PROVE  TxOk(x.tx, Behind(s).height + 1, Behind(s).utxos)
  BY DEF BuiltIsValid, Built
<1>1. SessionOk(s, x) /\ Chains
  BY DEF WalletInv, Courses
<1>2. /\ OwnMap(x.map) /\ x.pay \in Payments /\ x.next \in Nat /\ x.map = View(s) /\ Made(x)
  BY <1>1 DEF SessionOk, Holds
<1>3. PICK map, u, k, pay, tx : /\ map = x.map /\ u = Behind(s).utxos /\ k = x.next
                                /\ pay = x.pay /\ tx = x.tx
  OBVIOUS
<1>4. /\ DOMAIN map \subseteq DOMAIN u /\ \A op \in DOMAIN map : map[op] = u[op]
      /\ ChainOk(Behind(s).height, u) /\ HasOutputs(map) /\ HasOutputs(u)
  BY <1>1, <1>2, <1>3, ViewFacts DEF OwnMap, ChainOk
<1>5. PICK sel \in Selections(map, k, Asked(x)) :
          /\ Asked(x) <= Amounts(map, sel)
          /\ \E ins \in Orders(map, sel) : tx = Signed(pay, map, ins)
  BY <1>2, <1>3 DEF Made
<1>6. PICK ins \in Orders(map, sel) : tx = Signed(pay, map, ins)
  BY <1>5
<1>7. sel \subseteq DOMAIN map /\ \A op \in sel : Spendable(map[op], k)
  BY <1>5 DEF Selections
<1>8. pay \in Payments /\ OwnMap(map) /\ pay.amount + pay.fee <= Amounts(map, sel) /\ pay.amount > 0
  BY <1>2, <1>3, <1>5 DEF Asked
<1>9. /\ Pays(tx, pay) /\ WellFormed(tx, map) /\ tx.inputs = ins
      /\ OutTotal(tx) + pay.fee = Amounts(map, sel) /\ OutTotal(tx) \in Nat
      /\ \A i \in DOMAIN tx.outputs : tx.outputs[i].amount # 0
  BY <1>6, <1>7, <1>8, SignedPays
<1>10. IsFiniteSet(sel)
  BY <1>4, <1>7, FS_Subset DEF HasOutputs
<1>11. /\ {ins[i] : i \in DOMAIN ins} = sel /\ Len(ins) = Cardinality(sel)
       /\ Len(ins) \in Nat /\ DOMAIN ins = 1..Len(ins)
  BY <1>6, <1>10, OrderFacts
<1>12. ins # <<>>
  <2>1. ASSUME sel = {} PROVE FALSE
    <3>1. Amounts(map, sel) = 0
      BY <2>1, SumEmpty DEF Amounts
    <3> QED BY <1>8, <3>1, WalletAssumption
  <2> QED BY <1>11, <2>1
<1>13. \A i \in DOMAIN ins : ins[i] \in sel
  BY <1>11
<1>14. InTotal(tx, u) = Amounts(map, sel) /\ Amounts(map, sel) \in Nat
  <2>1. [i \in DOMAIN ins |-> u[ins[i]].output.amount] = [i \in DOMAIN ins |-> map[ins[i]].output.amount]
    BY <1>4, <1>7, <1>13
  <2>2. /\ Total([i \in DOMAIN ins |-> map[ins[i]].output.amount]) = Amounts(map, sel)
        /\ Amounts(map, sel) \in Nat
    BY <1>4, <1>6, <1>7, OrderTotal
  <2> QED BY <1>9, <2>1, <2>2 DEF InTotal
<1>15. Amounts(map, sel) <= MAX_U64
  <2>1. Amounts(map, sel) = Amounts(u, sel)
    <3>1. [op \in sel |-> map[op].output.amount] = [op \in sel |-> u[op].output.amount]
      BY <1>4, <1>7
    <3> QED BY <3>1 DEF Amounts
  <2> QED BY <1>4, <1>7, <2>1, CoinsFit
<1>16. OutTotal(tx) <= Amounts(map, sel) /\ OutTotal(tx) <= MAX_U64
  <2>1. pay.fee \in Nat /\ MAX_U64 \in Nat
    BY <1>8, WalletAssumption, LedgerAssumption
  <2>2. PICK o, a, f, m : o = OutTotal(tx) /\ a = Amounts(map, sel) /\ f = pay.fee /\ m = MAX_U64
    OBVIOUS
  <2>3. o + f = a /\ o \in Nat /\ a \in Nat /\ f \in Nat /\ m \in Nat /\ a <= m
    BY <1>9, <1>14, <1>15, <2>1, <2>2
  <2>4. o <= a /\ o <= m
    BY ONLY <2>3
  <2> QED BY <2>2, <2>4
<1>17. ASSUME NEW i \in DOMAIN tx.inputs PROVE InputOk(tx, i, k, u)
  <2>1. PICK op, w : op = tx.inputs[i] /\ w = tx.witnesses[i]
    OBVIOUS
  <2>2. op \in sel /\ op \in DOMAIN u /\ map[op] = u[op] /\ Spendable(u[op], k)
    BY <1>4, <1>7, <1>9, <1>13, <2>1
  <2>3. /\ w.pubkey = u[op].output.lock.pkh
        /\ Verify(u[op].output.lock.scheme, u[op].output.lock.pkh,
                  Sighash(tx, i, u[op].output), w.sig)
    BY <1>9, <2>1, <2>2 DEF WellFormed
  <2> QED BY <2>1, <2>2, <2>3 DEF InputOk, Spendable
<1>18. TxOk(tx, k, u)
  BY <1>9, <1>12, <1>14, <1>15, <1>16, <1>17 DEF TxOk, WellFormed
<1> QED BY <1>3, <1>18

\* The wallet's money adds up: what it owns is what it owned and earned, less
\* what each payment takes from it that made it into a block.
THEOREM MoneyAddsUp == Spec => []HoldingsExact
BY Invariant, InvHoldings, PTL

\* The balance the wallet shows is what it can pay with (balances_for and the
\* coin selection of build_send agree).
THEOREM BalancePays == Spec => []BalanceIsPayable
BY Invariant, InvBalance, PTL

\* What build_send signs passes check_tx on the chain it asked about, while
\* that has not moved, and provided that no coin of a wallet behind the RPC
\* opens at a height.
THEOREM SignedIsValid ==
  ASSUME LocksReadable
  PROVE  Spec => []BuiltIsValid
<1>1. WalletInv => BuiltIsValid
  BY InvSigned
<1> QED BY <1>1, Invariant, PTL
=============================================================================
