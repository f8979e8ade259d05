----------------------------- MODULE ChainProofs -----------------------------
(***************************************************************************)
(* ChainState for every block universe, delivery order and parameter value.*)
(* TipHasMostWork is not inductive alone: the early return of the fast path*)
(* on a supply overflow leaves a heavier block inactive, so it needs the   *)
(* bound on the supply; that bound needs the ledger to be a replay of the  *)
(* active chain; and a replay of a reorg's candidate needs the candidate to*)
(* be a path of the tree, which needs the tree to be closed under parents. *)
(***************************************************************************)
EXTENDS ChainRefinement, LedgerProofs

\* apply_chain as a run over the chain satisfies its recursion.
LEMMA ReplayRunDef ==
  ASSUME NEW c, Len(c) \in Nat
  PROVE  ReplayRun(c) =
           [i \in 0..Len(c) |->
              IF i = 0 THEN [ok |-> TRUE, utxos |-> EmptyUtxos, supply |-> 0]
                       ELSE ReplayStep(ReplayRun(c)[i - 1], c[i], i - 1)]
<1> DEFINE Base == [ok |-> TRUE, utxos |-> EmptyUtxos, supply |-> 0]
           Fits(g, n) == g = [i \in 0..n |->
                                IF i = 0 THEN Base ELSE ReplayStep(g[i - 1], c[i], i - 1)]
           S == {n \in Nat : \E g : Fits(g, n)}
<1> HIDE DEF Base
<1>1. 0 \in S
  <2>1. Fits([i \in 0..0 |-> Base], 0)
    OBVIOUS
  <2> QED BY <2>1
<1>2. ASSUME NEW n \in Nat, n \in S PROVE n + 1 \in S
  <2>1. PICK g : Fits(g, n)
    BY <1>2
  <2> DEFINE f == [i \in 0..(n + 1) |->
                     IF i = n + 1 THEN ReplayStep(g[n], c[n + 1], n) ELSE g[i]]
  <2>2. Fits(f, n + 1)
    BY <2>1
  <2> HIDE DEF f, Fits
  <2> QED BY <2>2
<1>3. Len(c) \in S
  <2> HIDE DEF S
  <2> QED BY <1>1, <1>2, NatSetInduction
<1>4. PICK g : Fits(g, Len(c))
  BY <1>3
<1> QED BY <1>4 DEF ReplayRun, Base

\* The first element of that run and its step.
LEMMA ReplayFirst ==
  ASSUME NEW c, Len(c) \in Nat
  PROVE  /\ ReplayRun(c)[0] = [ok |-> TRUE, utxos |-> EmptyUtxos, supply |-> 0]
         /\ \A i \in 1..Len(c) :
              ReplayRun(c)[i] = ReplayStep(ReplayRun(c)[i - 1], c[i], i - 1)
<1> DEFINE Base == [ok |-> TRUE, utxos |-> EmptyUtxos, supply |-> 0]
           run  == ReplayRun(c)
<1>1. run = [i \in 0..Len(c) |->
               IF i = 0 THEN Base ELSE ReplayStep(run[i - 1], c[i], i - 1)]
  BY ReplayRunDef
<1> HIDE DEF Base, run
<1>2. run[0] = Base
  BY <1>1
<1>3. \A i \in 1..Len(c) : run[i] = ReplayStep(run[i - 1], c[i], i - 1)
  BY <1>1
<1> QED BY <1>2, <1>3 DEF Base, run

\* Replaying a chain with one more block is replaying the chain, then that
\* block: the reason the fast path of add_block may work incrementally.
LEMMA ReplayAppend ==
  ASSUME NEW c \in Seq(Blocks), NEW b \in Blocks
  PROVE  ApplyChain(Append(c, b)) = ReplayStep(ApplyChain(c), b, Len(c))
<1> DEFINE d == Append(c, b)
           S == {n \in Nat : n \in 0..Len(c) => ReplayRun(d)[n] = ReplayRun(c)[n]}
<1>0. /\ d \in Seq(Blocks) /\ Len(d) = Len(c) + 1 /\ d[Len(c) + 1] = b
      /\ \A i \in 1..Len(c) : d[i] = c[i]
      /\ Len(c) \in Nat /\ Len(d) \in Nat
  OBVIOUS
<1> HIDE DEF d
<1>1. 0 \in S
  BY <1>0, ReplayFirst
<1>2. ASSUME NEW n \in Nat, n \in S PROVE n + 1 \in S
  <2> SUFFICES ASSUME n + 1 \in 0..Len(c)
               PROVE  ReplayRun(d)[n + 1] = ReplayRun(c)[n + 1]
    OBVIOUS
  <2>1. ReplayRun(d)[n] = ReplayRun(c)[n]
    BY <1>2
  <2>2. ReplayRun(d)[n + 1] = ReplayStep(ReplayRun(d)[n + 1 - 1], d[n + 1], n + 1 - 1)
    BY <1>0, ReplayFirst
  <2>3. ReplayRun(c)[n + 1] = ReplayStep(ReplayRun(c)[n + 1 - 1], c[n + 1], n + 1 - 1)
    BY <1>0, ReplayFirst
  <2> QED BY <2>1, <2>2, <2>3, <1>0
<1>3. \A n \in Nat : n \in S
  <2> HIDE DEF S
  <2> QED BY <1>1, <1>2, NatSetInduction
<1>4. ReplayRun(d)[Len(c)] = ReplayRun(c)[Len(c)]
  BY <1>0, <1>3
<1>5. ReplayRun(d)[Len(c) + 1] =
        ReplayStep(ReplayRun(d)[Len(c) + 1 - 1], d[Len(c) + 1], Len(c) + 1 - 1)
  BY <1>0, ReplayFirst
<1>6. Len(c) + 1 - 1 = Len(c)
  BY <1>0
<1> QED BY <1>0, <1>4, <1>5, <1>6 DEF ApplyChain, d

\* What a replay of n blocks of a chain has built up.
ReplayAcc(acc, n) ==
    /\ acc = [ok |-> acc.ok, utxos |-> acc.utxos, supply |-> acc.supply]
    /\ IsUtxoMap(acc.utxos)
    /\ acc.supply \in Nat
    /\ acc.ok => /\ acc.supply <= MAX_U64
                 /\ n = 0 => acc.supply = 0
                 /\ n > 0 => acc.supply <= Issued[n - 1]

\* One block of a replay adds at most its subsidy to the supply.
LEMMA ReplayStepAcc ==
  ASSUME NEW n \in 0..MAX_HEIGHT, NEW acc, ReplayAcc(acc, n), NEW b \in Blocks
  PROVE  ReplayAcc(ReplayStep(acc, b, n), n + 1)
<1> DEFINE r == ValidateBlockTxs(BLOCK[b].txs, n, acc.utxos)
           Taken == acc.ok /\ r.ok /\ acc.supply + r.minted <= MAX_U64
           nu == r.utxos
           ns == acc.supply + r.minted
<1>1. /\ IsUtxoMap(r.utxos)
      /\ r.minted \in Nat
      /\ r.ok => r.minted <= BLOCK_REWARD[n]
  BY ValidateBlockTxsType, BlocksAssumption DEF ReplayAcc
<1>2. CASE Taken
  <2>1. ReplayStep(acc, b, n) = [ok |-> TRUE, utxos |-> nu, supply |-> ns]
    BY <1>2 DEF ReplayStep
  <2>2. /\ BLOCK_REWARD[n] \in Nat
        /\ n = 0 => Issued[n] = BLOCK_REWARD[n]
        /\ n > 0 => Issued[n] = Issued[n - 1] + BLOCK_REWARD[n] /\ Issued[n - 1] \in Nat
    BY IssuedMonotone, LedgerAssumption
  <2>3. ns \in Nat /\ ns <= MAX_U64 /\ ns <= Issued[n]
    BY <1>1, <1>2, <2>2 DEF ReplayAcc
  <2>4. n + 1 > 0 /\ n + 1 # 0 /\ n + 1 - 1 = n
    OBVIOUS
  <2> HIDE DEF nu, ns
  <2>5. IsUtxoMap(nu)
    BY <1>1 DEF nu
  <2> QED BY <2>1, <2>3, <2>4, <2>5 DEF ReplayAcc
<1>3. CASE ~Taken
  <2>1. ReplayStep(acc, b, n) = [acc EXCEPT !.ok = FALSE]
    BY <1>3 DEF ReplayStep
  <2>2. ReplayStep(acc, b, n) = [ok |-> FALSE, utxos |-> acc.utxos, supply |-> acc.supply]
    BY <2>1 DEF ReplayAcc
  <2>3. IsUtxoMap(acc.utxos) /\ acc.supply \in Nat
    BY DEF ReplayAcc
  <2> QED BY <2>2, <2>3 DEF ReplayAcc
<1> QED BY <1>2, <1>3

\* A successful replay of n blocks has minted at most their n subsidies.
LEMMA ApplyChainAcc ==
  ASSUME NEW c \in Seq(Blocks), Len(c) \in 1..(MAX_HEIGHT + 1)
  PROVE  ReplayAcc(ApplyChain(c), Len(c))
<1> DEFINE S == {n \in Nat : n \in 0..Len(c) => ReplayAcc(ReplayRun(c)[n], n)}
<1>0. Len(c) \in Nat /\ MAX_HEIGHT \in Nat
  BY LedgerAssumption
<1>1. 0 \in S
  <2>1. IsUtxoMap(EmptyUtxos)
    BY DEF IsUtxoMap, EmptyUtxos
  <2>2. ReplayRun(c)[0] = [ok |-> TRUE, utxos |-> EmptyUtxos, supply |-> 0]
    BY <1>0, ReplayFirst
  <2>3. ReplayAcc(ReplayRun(c)[0], 0)
    BY <2>1, <2>2, LedgerAssumption DEF ReplayAcc
  <2> QED BY <2>3
<1>2. ASSUME NEW n \in Nat, n \in S PROVE n + 1 \in S
  <2> SUFFICES ASSUME n + 1 \in 0..Len(c) PROVE ReplayAcc(ReplayRun(c)[n + 1], n + 1)
    OBVIOUS
  <2>1. ReplayRun(c)[n + 1] = ReplayStep(ReplayRun(c)[n + 1 - 1], c[n + 1], n + 1 - 1)
    BY <1>0, ReplayFirst
  <2>2. n \in 0..MAX_HEIGHT /\ c[n + 1] \in Blocks /\ n + 1 - 1 = n
    BY <1>0
  <2>3. ReplayAcc(ReplayRun(c)[n], n)
    BY <1>2
  <2> QED BY <2>1, <2>2, <2>3, ReplayStepAcc
<1>3. \A n \in Nat : n \in S
  <2> HIDE DEF S
  <2> QED BY <1>1, <1>2, NatSetInduction
<1> QED BY <1>0, <1>3 DEF ApplyChain

\* The parent walk of the reorg path satisfies its recursion.
LEMMA UpDef ==
  ASSUME NEW m, NEW b, m[b].height \in Nat
  PROVE  /\ Up(m, b)[0] = b
         /\ \A k \in 1..m[b].height : Up(m, b)[k] = m[Up(m, b)[k - 1]].parent
<1> DEFINE N == m[b].height
           Fits(g, n) == g = [k \in 0..n |-> IF k = 0 THEN b ELSE m[g[k - 1]].parent]
           S == {n \in Nat : \E g : Fits(g, n)}
<1>0. N \in Nat
  OBVIOUS
<1> HIDE DEF N
<1>1. 0 \in S
  <2>1. Fits([i \in 0..0 |-> b], 0)
    OBVIOUS
  <2> QED BY <2>1
<1>2. ASSUME NEW n \in Nat, n \in S PROVE n + 1 \in S
  <2>1. PICK g : Fits(g, n)
    BY <1>2
  <2> DEFINE f == [k \in 0..(n + 1) |-> IF k = n + 1 THEN m[g[n]].parent ELSE g[k]]
  <2>2. \A k \in 0..(n + 1) : f[k] = IF k = 0 THEN b ELSE m[f[k - 1]].parent
    <3>1. \A k \in 0..n : g[k] = IF k = 0 THEN b ELSE m[g[k - 1]].parent
      BY <2>1
    <3>2. f[n + 1] = m[g[n]].parent /\ \A k \in 0..n : f[k] = g[k]
      OBVIOUS
    <3> HIDE DEF f
    <3>3. f[n + 1] = m[f[n]].parent
      BY <3>2
    <3>4. \A k \in 1..n : g[k] = m[f[k - 1]].parent
      BY <3>1, <3>2
    <3> QED BY <3>1, <3>2, <3>3, <3>4
  <2>3. Fits(f, n + 1)
    BY <2>2
  <2> HIDE DEF f, Fits
  <2> QED BY <2>3
<1>3. N \in S
  <2> HIDE DEF S
  <2> QED BY <1>0, <1>1, <1>2, NatSetInduction
<1>4. PICK g : Fits(g, N)
  BY <1>3
<1>5. Fits(Up(m, b), N)
  BY <1>4 DEF Up, N
<1>6. Up(m, b)[0] = b /\ \A k \in 1..N : Up(m, b)[k] = m[Up(m, b)[k - 1]].parent
  BY <1>0, <1>5
<1> QED BY <1>6 DEF N

\* From any known block the parent walk ends in genesis after exactly `height`
\* steps, and reversed it is a parent-linked path indexed by height.
LEMMA WalkIsPath ==
  ASSUME NEW m, NEW s, IsTree(m, s), \A x \in s : m[x].height \in Nat,
         NEW b \in s
  PROVE  LET c == Walk(m, b)
         IN  /\ c \in Seq(s)
             /\ Len(c) = m[b].height + 1
             /\ c[Len(c)] = b
             /\ c[1] = Genesis
             /\ \A i \in 1..Len(c) : /\ m[c[i]].height = i - 1
                                     /\ i > 1 => BLOCK[c[i]].prev = c[i - 1]
<1> DEFINE N == m[b].height
           u == Up(m, b)
           c == Walk(m, b)
           S == {k \in Nat : k \in 0..N => u[k] \in s /\ m[u[k]].height = N - k}
<1>0. N \in Nat
  OBVIOUS
<1>1. u[0] = b /\ \A k \in 1..N : u[k] = m[u[k - 1]].parent
  BY <1>0, UpDef
<1>2. ASSUME NEW x \in s, m[x].height > 0
      PROVE  /\ x # Genesis
             /\ m[x].parent = BLOCK[x].prev
             /\ BLOCK[x].prev \in s
             /\ m[BLOCK[x].prev].height = m[x].height - 1
  <2>1. x # Genesis
    BY <1>2 DEF IsTree
  <2>2. /\ BLOCK[x].prev \in s
        /\ m[x].height = m[BLOCK[x].prev].height + 1
        /\ m[x].parent = BLOCK[x].prev
    BY <2>1 DEF IsTree
  <2>3. m[BLOCK[x].prev].height \in Nat
    BY <2>2
  <2> QED BY <2>1, <2>2, <2>3
<1>3. ASSUME NEW x \in s, m[x].height = 0 PROVE x = Genesis
  <2> SUFFICES ASSUME x # Genesis PROVE FALSE
    OBVIOUS
  <2>1. BLOCK[x].prev \in s /\ m[x].height = m[BLOCK[x].prev].height + 1
    BY DEF IsTree
  <2>2. m[BLOCK[x].prev].height \in Nat
    BY <2>1
  <2> QED BY <2>1, <2>2, <1>3
<1> HIDE DEF u, N
<1>4. 0 \in S
  BY <1>0, <1>1 DEF N
<1>5. ASSUME NEW k \in Nat, k \in S PROVE k + 1 \in S
  <2> SUFFICES ASSUME k + 1 \in 0..N
               PROVE  u[k + 1] \in s /\ m[u[k + 1]].height = N - (k + 1)
    OBVIOUS
  <2>1. u[k] \in s /\ m[u[k]].height = N - k /\ N - k > 0
    BY <1>0, <1>5
  <2>2. u[k + 1] = m[u[k]].parent
    <3>1. k + 1 \in 1..N /\ k + 1 - 1 = k
      BY <1>0
    <3> QED BY <3>1, <1>1
  <2>3. /\ m[u[k]].parent = BLOCK[u[k]].prev
        /\ BLOCK[u[k]].prev \in s
        /\ m[BLOCK[u[k]].prev].height = m[u[k]].height - 1
    BY <2>1, <1>2
  <2> QED BY <2>1, <2>2, <2>3, <1>0
<1>6. \A k \in Nat : k \in S
  <2> HIDE DEF S
  <2> QED BY <1>4, <1>5, NatSetInduction
<1>7. \A k \in 0..N : u[k] \in s /\ m[u[k]].height = N - k
  BY <1>0, <1>6
<1>8. c = [i \in 1..(N + 1) |-> u[N + 1 - i]]
  BY DEF Walk, u, N
<1> HIDE DEF S, c
<1>9. c \in Seq(s) /\ Len(c) = N + 1
  <2>1. \A i \in 1..(N + 1) : N + 1 - i \in 0..N
    BY <1>0
  <2>2. c \in [1..(N + 1) -> s]
    BY <2>1, <1>7, <1>8
  <2> QED BY <2>2, <1>0
<1>10. ASSUME NEW i \in 1..(N + 1)
       PROVE  c[i] = u[N + 1 - i] /\ c[i] \in s /\ m[c[i]].height = i - 1
  BY <1>0, <1>7, <1>8
<1>11. c[N + 1] = b
  BY <1>0, <1>1, <1>10
<1>12. c[1] = Genesis
  BY <1>0, <1>3, <1>10
<1>13. ASSUME NEW i \in 1..(N + 1), i > 1 PROVE BLOCK[c[i]].prev = c[i - 1]
  <2> DEFINE k == N + 1 - i
  <2>1. k \in 0..N /\ k + 1 \in 1..N /\ k + 1 - 1 = k /\ N + 1 - (i - 1) = k + 1
        /\ i - 1 \in 1..(N + 1)
    BY <1>0, <1>13
  <2> HIDE DEF k
  <2>2. u[k + 1] = m[u[k]].parent
    BY <2>1, <1>1
  <2>3. c[i - 1] = u[k + 1] /\ c[i] = u[k]
    BY <2>1, <1>10 DEF k
  <2>4. m[c[i]].height > 0 /\ c[i] \in s
    BY <1>10, <1>13
  <2>5. m[c[i]].parent = BLOCK[c[i]].prev
    BY <2>4, <1>2
  <2> QED BY <2>2, <2>3, <2>5
<1> QED BY <1>9, <1>10, <1>11, <1>12, <1>13 DEF c, N

-----------------------------------------------------------------------------
(***************************************************************************)
(* The inductive invariant.                                                *)
(***************************************************************************)
ChainInv ==
    /\ TypeOK
    /\ KnownTree
    /\ ActiveIsPath
    /\ TipHasMostWork
    /\ LedgerIsReplay
    /\ SupplyWithinSchedule

\* ChainState::new establishes the invariant.
LEMMA InitInv == Init => ChainInv
<1> SUFFICES ASSUME Init PROVE ChainInv
  OBVIOUS
<1> DEFINE c == <<Genesis>>
           r == ApplyChain(c)
<1>1. c \in Seq(Blocks) /\ Len(c) = 1 /\ c[1] = Genesis /\ DOMAIN c = 1..1
  BY BlocksAssumption
<1>2. ReplayAcc(r, 1)
  BY <1>1, ApplyChainAcc, LedgerAssumption
<1>3. active = c /\ r.ok /\ utxos = r.utxos /\ supply = r.supply
  BY DEF Init
<1>4. meta[Genesis].height = 0 /\ meta[Genesis].cum_work \in Nat
      /\ DOMAIN meta = {Genesis} /\ meta[Genesis] \in Metas
  BY BlocksAssumption, LedgerAssumption DEF Init, Metas
<1>5. Issued[0] \in Nat /\ Issued[0] <= MAX_U64
  BY IssuedMonotone, SupplyCapAssumption, LedgerAssumption
<1> HIDE DEF c, r
<1>6. supply \in 0..MAX_U64 /\ supply <= Issued[0] /\ IsUtxoMap(utxos)
      /\ r = [ok |-> r.ok, utxos |-> r.utxos, supply |-> r.supply]
  BY <1>2, <1>3, LedgerAssumption DEF ReplayAcc
<1>7. TypeOK
  BY <1>1, <1>3, <1>4, <1>6, BlocksAssumption, LedgerAssumption DEF TypeOK, Init
<1>8. KnownTree
  BY <1>4 DEF KnownTree, IsTree, Init
<1>9. ActiveIsPath
  BY <1>1, <1>3, <1>4 DEF ActiveIsPath, Init
<1>10. TipHasMostWork
  BY <1>1, <1>3, <1>4 DEF TipHasMostWork, TipWork, Tip, Init
<1>11. LedgerIsReplay
  BY <1>3, <1>6 DEF LedgerIsReplay, r
<1>12. SupplyWithinSchedule
  <2>1. Height = 0
    BY <1>1, <1>3 DEF Height
  <2> QED BY <2>1, <1>6 DEF SupplyWithinSchedule
<1> QED BY <1>7, <1>8, <1>9, <1>10, <1>11, <1>12 DEF ChainInv

\* Inserting a block under a known parent keeps the tree.
LEMMA InsertKeepsTree ==
  ASSUME ChainInv, NEW b \in Blocks, NEW body \in BOOLEAN, Inserts(b, body)
  PROVE  /\ IsTree(InsertMeta(b), all \cup {b})
         /\ \A x \in all \cup {b} : InsertMeta(b)[x] \in Metas
         /\ \A x \in all : InsertMeta(b)[x] = meta[x]
         /\ InsertMeta(b)[b] = NewMeta(b)
<1> DEFINE p == BLOCK[b].prev
           m == InsertMeta(b)
<1>1. b \notin all /\ p \in all /\ DOMAIN meta = all /\ Genesis \in all
      /\ meta[p].height < MAX_HEIGHT /\ all \subseteq Blocks
  BY DEF Inserts, ChainInv, KnownTree, IsTree, TypeOK
<1>2. /\ DOMAIN m = all \cup {b}
      /\ m[b] = NewMeta(b)
      /\ \A x \in all : m[x] = meta[x]
  BY <1>1 DEF InsertMeta
<1>3. meta[p] \in Metas
  BY <1>1 DEF ChainInv, TypeOK
<1>4. NewMeta(b) \in Metas
  <2>1. meta[p].height \in 0..MAX_HEIGHT /\ meta[p].cum_work \in Nat
    BY <1>3 DEF Metas
  <2>2. meta[p].height + 1 \in 0..MAX_HEIGHT
    BY <2>1, <1>1, LedgerAssumption
  <2>3. meta[p].cum_work + WORK(BLOCK[b].bits) \in Nat /\ BLOCK[b].time \in Nat
    BY <2>1, BlocksAssumption
  <2>4. p \in Blocks \cup {Zero}
    BY <1>1
  <2> HIDE DEF p
  <2> QED BY <2>2, <2>3, <2>4 DEF NewMeta, Metas, p
<1>5. \A x \in all \cup {b} : m[x] \in Metas
  BY <1>1, <1>2, <1>4 DEF ChainInv, TypeOK
<1> HIDE DEF m
<1>6. m[b] = [height   |-> m[p].height + 1,
              cum_work |-> m[p].cum_work + WORK(BLOCK[b].bits),
              time     |-> BLOCK[b].time,
              parent   |-> p]
  BY <1>1, <1>2 DEF NewMeta
<1>7. ASSUME NEW x \in all \ {Genesis}
      PROVE  /\ BLOCK[x].prev \in all
             /\ m[x] = [height   |-> m[BLOCK[x].prev].height + 1,
                        cum_work |-> m[BLOCK[x].prev].cum_work + WORK(BLOCK[x].bits),
                        time     |-> BLOCK[x].time,
                        parent   |-> BLOCK[x].prev]
  BY <1>1, <1>2 DEF ChainInv, KnownTree, IsTree
<1>8. m[Genesis].height = 0
  BY <1>1, <1>2 DEF ChainInv, KnownTree, IsTree
<1>9. IsTree(m, all \cup {b})
  BY <1>1, <1>2, <1>6, <1>7, <1>8 DEF IsTree
<1> QED BY <1>2, <1>5, <1>9 DEF m

\* The part of the argument that the fast path and the reorg share: a block with
\* more work than the tip becomes the tip of a path that replays.
LEMMA ActivateKeepsInv ==
  ASSUME ChainInv, NEW b \in Blocks, NEW body \in BOOLEAN, Inserts(b, body),
         NewMeta(b).cum_work > TipWork,
         all' = all \cup {b}, meta' = InsertMeta(b),
         active' \in Seq(all \cup {b}), Len(active') \in 1..(MAX_HEIGHT + 1),
         active'[1] = Genesis, active'[Len(active')] = b,
         \A i \in 1..Len(active') :
            /\ InsertMeta(b)[active'[i]].height = i - 1
            /\ i > 1 => BLOCK[active'[i]].prev = active'[i - 1],
         ApplyChain(active') = [ok |-> TRUE, utxos |-> utxos', supply |-> supply'],
         Returns(b, body, "active")
  PROVE  ChainInv'
<1>1. /\ IsTree(InsertMeta(b), all \cup {b})
      /\ \A x \in all \cup {b} : InsertMeta(b)[x] \in Metas
      /\ \A x \in all : InsertMeta(b)[x] = meta[x]
      /\ InsertMeta(b)[b] = NewMeta(b)
  BY InsertKeepsTree
<1>2. all \cup {b} \subseteq Blocks /\ DOMAIN meta' = all'
  BY <1>1 DEF ChainInv, TypeOK, IsTree
<1>3. active' \in Seq(Blocks)
  BY <1>2
<1>4. ReplayAcc(ApplyChain(active'), Len(active'))
  BY <1>3, ApplyChainAcc
<1> DEFINE r == ApplyChain(active')
<1>5. r.ok = TRUE /\ r.utxos = utxos' /\ r.supply = supply'
  <2>1. r = [ok |-> TRUE, utxos |-> utxos', supply |-> supply']
    OBVIOUS
  <2> HIDE DEF r
  <2> QED BY <2>1
<1> HIDE DEF r
<1>6. /\ IsUtxoMap(utxos')
      /\ supply' \in Nat /\ supply' <= MAX_U64
      /\ supply' <= Issued[Len(active') - 1]
  BY <1>4, <1>5 DEF ReplayAcc, r
<1>7. TypeOK'
  <2>1. ret' \in [block : Blocks, body : BOOLEAN,
                  res : {"duplicate", "unknown_parent", "invalid", "side",
                         "overflow", "active"}]
    BY DEF Returns
  <2>2. supply' \in 0..MAX_U64
    BY <1>6, LedgerAssumption
  <2> QED BY <2>1, <2>2, <1>1, <1>2, <1>3, <1>6 DEF TypeOK
<1>8. KnownTree'
  BY <1>1 DEF KnownTree
<1>9. ActiveIsPath'
  <2>1. DOMAIN active' = 1..Len(active') /\ \A i \in DOMAIN active' : active'[i] \in all'
    BY <1>3
  <2> QED BY <2>1, <1>1 DEF ActiveIsPath
<1>10. TipHasMostWork'
  <2>1. TipWork' = NewMeta(b).cum_work
    BY <1>1 DEF TipWork, Tip
  <2>2. ASSUME NEW x \in all PROVE meta'[x].cum_work <= NewMeta(b).cum_work
    <3>1. meta'[x].cum_work = meta[x].cum_work /\ meta[x].cum_work <= TipWork
      BY <1>1 DEF ChainInv, TipHasMostWork
    <3>2. meta[x].cum_work \in Nat /\ NewMeta(b).cum_work \in Nat
      BY <1>1 DEF Metas
    <3>3. TipWork \in Nat
      <4>1. Tip \in all
        BY DEF ChainInv, TypeOK, ActiveIsPath, Tip
      <4> QED BY <4>1, <1>1 DEF TipWork, Metas
    <3> QED BY <3>1, <3>2, <3>3
  <2>3. meta'[b].cum_work <= NewMeta(b).cum_work
    BY <1>1 DEF Metas
  <2> QED BY <2>1, <2>2, <2>3 DEF TipHasMostWork
<1>11. LedgerIsReplay'
  BY DEF LedgerIsReplay, ApplyChain, ReplayRun
<1>12. SupplyWithinSchedule'
  BY <1>6 DEF SupplyWithinSchedule, Height
<1> QED BY <1>7, <1>8, <1>9, <1>10, <1>11, <1>12 DEF ChainInv

\* A call that changes nothing but its result keeps the invariant.
LEMMA RejectKeepsInv ==
  ASSUME ChainInv, UNCHANGED <<all, meta, active, utxos, supply>>,
         ret' \in [block : Blocks, body : BOOLEAN,
                  res : {"duplicate", "unknown_parent", "invalid", "side",
                         "overflow", "active"}]
  PROVE  ChainInv'
<1>1. TypeOK'
  BY DEF ChainInv, TypeOK
<1>2. KnownTree' /\ ActiveIsPath'
  BY DEF ChainInv, KnownTree, ActiveIsPath
<1>3. TipHasMostWork'
  BY DEF ChainInv, TipHasMostWork, TipWork, Tip
<1>4. LedgerIsReplay'
  BY DEF ChainInv, LedgerIsReplay, ApplyChain, ReplayRun
<1>5. SupplyWithinSchedule'
  BY DEF ChainInv, SupplyWithinSchedule, Height
<1> QED BY <1>1, <1>2, <1>3, <1>4, <1>5 DEF ChainInv

\* A kept side block has no more work than the tip, so the tip stays best.
LEMMA KeepSideBlockInv ==
  ASSUME ChainInv, NEW b \in Blocks, NEW body \in BOOLEAN, KeepSideBlock(b, body)
  PROVE  ChainInv'
<1>0. Inserts(b, body) /\ ~Outweighs(b)
      /\ all' = all \cup {b} /\ meta' = InsertMeta(b)
      /\ UNCHANGED <<active, utxos, supply>> /\ Returns(b, body, "side")
  BY DEF KeepSideBlock, InsertBlock
<1>1. /\ IsTree(InsertMeta(b), all \cup {b})
      /\ \A x \in all \cup {b} : InsertMeta(b)[x] \in Metas
      /\ \A x \in all : InsertMeta(b)[x] = meta[x]
      /\ InsertMeta(b)[b] = NewMeta(b)
  BY <1>0, InsertKeepsTree
<1>2. TypeOK'
  <2>1. ret' \in [block : Blocks, body : BOOLEAN,
                  res : {"duplicate", "unknown_parent", "invalid", "side",
                         "overflow", "active"}]
    BY <1>0 DEF Returns
  <2>2. DOMAIN meta' = all' /\ all' \subseteq Blocks
    BY <1>0, <1>1 DEF IsTree, ChainInv, TypeOK
  <2> QED BY <1>0, <1>1, <2>1, <2>2 DEF ChainInv, TypeOK
<1>3. KnownTree'
  BY <1>0, <1>1 DEF KnownTree
<1>4. ActiveIsPath'
  BY <1>0, <1>1 DEF ChainInv, ActiveIsPath
<1>5. TipHasMostWork'
  <2>1. Tip \in all
    BY DEF ChainInv, TypeOK, ActiveIsPath, Tip
  <2>2. TipWork' = TipWork
    BY <1>0, <1>1, <2>1 DEF TipWork, Tip
  <2>3. NewMeta(b).cum_work <= TipWork
    <3>1. TipWork \in Nat /\ NewMeta(b).cum_work \in Nat
      BY <1>1, <2>1 DEF Metas, TipWork
    <3> QED BY <1>0, <3>1 DEF Outweighs
  <2> QED BY <1>0, <1>1, <2>2, <2>3 DEF ChainInv, TipHasMostWork
<1>6. LedgerIsReplay'
  BY <1>0 DEF ChainInv, LedgerIsReplay, ApplyChain, ReplayRun
<1>7. SupplyWithinSchedule'
  BY <1>0 DEF ChainInv, SupplyWithinSchedule, Height
<1> QED BY <1>2, <1>3, <1>4, <1>5, <1>6, <1>7 DEF ChainInv

\* The fast path keeps the invariant; its overflow return is never taken.
LEMMA ExtendTipInv ==
  ASSUME ChainInv, NEW b \in Blocks, NEW body \in BOOLEAN, ExtendTip(b, body)
  PROVE  ChainInv'
<1> DEFINE n == Len(active)
           r == ValidateOnTip(b)
<1>0. Inserts(b, body) /\ NewMeta(b).cum_work > TipWork /\ BLOCK[b].prev = Tip
  BY DEF ExtendTip, Outweighs, OnTip
<1>1. /\ n \in Nat \ {0} /\ Tip \in all /\ meta[Tip].height = n - 1
      /\ active \in Seq(all)
  BY DEF ChainInv, TypeOK, ActiveIsPath, Tip
<1>2. NewMeta(b).height = n /\ n \in 1..MAX_HEIGHT
  BY <1>0, <1>1, LedgerAssumption DEF NewMeta, Inserts
<1>3. r = ValidateBlockTxs(BLOCK[b].txs, n, utxos)
  BY <1>2 DEF ValidateOnTip
<1>4. /\ IsUtxoMap(r.utxos)
      /\ r.minted \in Nat
      /\ r.ok => r.minted <= BLOCK_REWARD[n]
  <2>1. PICK txs, u, k : txs = BLOCK[b].txs /\ u = utxos /\ k = n
    OBVIOUS
  <2>2. txs \in Seq(Txs)
    BY <2>1, BlocksAssumption
  <2>3. k \in 0..MAX_HEIGHT
    BY <1>2, <2>1, LedgerAssumption
  <2>4. IsUtxoMap(u)
    BY <2>1 DEF ChainInv, TypeOK
  <2>5. /\ IsUtxoMap(ValidateBlockTxs(txs, k, u).utxos)
        /\ ValidateBlockTxs(txs, k, u).minted \in Nat
        /\ ValidateBlockTxs(txs, k, u).ok =>
             ValidateBlockTxs(txs, k, u).minted <= BLOCK_REWARD[k]
    BY ONLY <2>2, <2>3, <2>4, ValidateBlockTxsType
  <2>6. r = ValidateBlockTxs(txs, k, u)
    BY <1>3, <2>1
  <2> HIDE DEF r
  <2> QED BY <2>1, <2>5, <2>6
<1> HIDE DEF r
<1>5. CASE ~r.ok
  <2>1. Returns(b, body, "invalid") /\ UNCHANGED <<all, meta, active, utxos, supply>>
    BY <1>5 DEF ExtendTip, DiscardBlock, r
  <2> QED BY <2>1, RejectKeepsInv DEF Returns
<1>6. CASE r.ok
  <2>1. supply + r.minted <= MAX_U64
    <3>1. supply \in Nat /\ supply <= Issued[n - 1]
      BY DEF ChainInv, TypeOK, SupplyWithinSchedule, Height
    <3>2. /\ Issued[n] = Issued[n - 1] + BLOCK_REWARD[n]
          /\ Issued[n - 1] \in Nat /\ Issued[n] \in Nat /\ BLOCK_REWARD[n] \in Nat
          /\ Issued[n] <= Issued[MAX_HEIGHT] /\ Issued[MAX_HEIGHT] \in Nat
      BY <1>2, IssuedMonotone, LedgerAssumption
    <3>3. PICK s \in Nat, d \in Nat, i \in Nat, w \in Nat, cap \in Nat :
             /\ s = supply /\ d = r.minted /\ i = Issued[n - 1] /\ w = BLOCK_REWARD[n]
             /\ cap = Issued[MAX_HEIGHT]
      BY <1>4, <3>1, <3>2
    <3>4. s <= i /\ d <= w /\ i + w <= cap /\ cap <= MAX_U64
      BY <1>4, <1>6, <3>1, <3>2, <3>3, SupplyCapAssumption
    <3>5. s + d <= MAX_U64
      BY ONLY <3>4, s \in Nat, d \in Nat, i \in Nat, w \in Nat, cap \in Nat, LedgerAssumption
    <3> QED BY <3>3, <3>5
  <2>2. /\ all' = all \cup {b} /\ meta' = InsertMeta(b)
        /\ active' = Append(active, b)
        /\ utxos' = r.utxos /\ supply' = supply + r.minted
        /\ Returns(b, body, "active")
    <3>1. ~(supply + r.minted > MAX_U64)
      BY <2>1, <1>4, LedgerAssumption DEF ChainInv, TypeOK
    <3> QED BY <3>1, <1>6 DEF ExtendTip, InsertBlock, SupplyAfter, r
  <2>3. /\ IsTree(InsertMeta(b), all \cup {b})
        /\ \A x \in all : InsertMeta(b)[x] = meta[x]
        /\ InsertMeta(b)[b] = NewMeta(b)
    BY <1>0, InsertKeepsTree
  <2>4. /\ active' \in Seq(all \cup {b}) /\ Len(active') = n + 1
        /\ active'[n + 1] = b
        /\ \A i \in 1..n : active'[i] = active[i]
    BY <1>1, <2>2
  <2>5. Len(active') \in 1..(MAX_HEIGHT + 1)
    BY <1>2, <2>4, LedgerAssumption
  <2>6. active'[1] = Genesis
    BY <1>1, <2>4 DEF ChainInv, ActiveIsPath
  <2>7. ASSUME NEW i \in 1..Len(active')
        PROVE  /\ InsertMeta(b)[active'[i]].height = i - 1
               /\ i > 1 => BLOCK[active'[i]].prev = active'[i - 1]
    <3>1. CASE i = n + 1
      <4>1. active'[i - 1] = Tip
        BY <1>1, <3>1, <2>4 DEF Tip
      <4> QED BY <3>1, <4>1, <1>0, <1>1, <1>2, <2>3, <2>4
    <3>2. CASE i \in 1..n
      <4>1. active'[i] = active[i] /\ active[i] \in all /\ i \in DOMAIN active
        BY <3>2, <1>1, <2>4
      <4>2. i > 1 => active'[i - 1] = active[i - 1]
        BY <3>2, <1>1, <2>4
      <4> QED BY <4>1, <4>2, <2>3 DEF ChainInv, ActiveIsPath
    <3> QED BY <3>1, <3>2, <2>4, <1>1
  <2>8. ApplyChain(active') = [ok |-> TRUE, utxos |-> utxos', supply |-> supply']
    <3> DEFINE acc == ApplyChain(active)
    <3>1. acc = [ok |-> TRUE, utxos |-> utxos, supply |-> supply]
      BY DEF ChainInv, LedgerIsReplay
    <3>2. ApplyChain(Append(active, b)) = ReplayStep(acc, b, n)
      BY ReplayAppend DEF ChainInv, TypeOK
    <3> HIDE DEF acc
    <3>3. acc.ok = TRUE /\ acc.utxos = utxos /\ acc.supply = supply
      BY <3>1
    <3>4. r = ValidateBlockTxs(BLOCK[b].txs, n, acc.utxos)
      BY <3>3, <1>3
    <3>5. ReplayStep(acc, b, n) =
            [ok |-> TRUE, utxos |-> r.utxos, supply |-> supply + r.minted]
      BY <3>3, <3>4, <1>6, <2>1 DEF ReplayStep
    <3> QED BY <3>2, <3>5, <2>2
  <2> QED BY <1>0, <2>2, <2>4, <2>5, <2>6, <2>7, <2>8, ActivateKeepsInv
<1> QED BY <1>5, <1>6

\* A reorg, successful or failed, keeps the invariant.
LEMMA ReorgInv ==
  ASSUME ChainInv, NEW b \in Blocks, NEW body \in BOOLEAN, Reorg(b, body)
  PROVE  ChainInv'
<1> DEFINE m == InsertMeta(b)
           c == Walk(m, b)
           r == ApplyChain(c)
<1>0. Inserts(b, body) /\ NewMeta(b).cum_work > TipWork
  BY DEF Reorg, Outweighs, OnTip
<1>1. /\ IsTree(m, all \cup {b})
      /\ \A x \in all \cup {b} : m[x] \in Metas
  BY <1>0, InsertKeepsTree
<1>2. \A x \in all \cup {b} : m[x].height \in Nat /\ m[x].height <= MAX_HEIGHT
  BY <1>1, LedgerAssumption DEF Metas
<1>3. /\ c \in Seq(all \cup {b})
      /\ Len(c) = m[b].height + 1
      /\ c[Len(c)] = b
      /\ c[1] = Genesis
      /\ \A i \in 1..Len(c) : /\ m[c[i]].height = i - 1
                              /\ i > 1 => BLOCK[c[i]].prev = c[i - 1]
  <2> DEFINE s == all \cup {b}
  <2>1. b \in s /\ IsTree(m, s) /\ \A x \in s : m[x].height \in Nat
    BY <1>1, <1>2
  <2> HIDE DEF m, s
  <2>2. /\ c \in Seq(s)
        /\ Len(c) = m[b].height + 1
        /\ c[Len(c)] = b
        /\ c[1] = Genesis
        /\ \A i \in 1..Len(c) : /\ m[c[i]].height = i - 1
                                /\ i > 1 => BLOCK[c[i]].prev = c[i - 1]
    BY <2>1, WalkIsPath
  <2> QED BY <2>2 DEF s
<1> HIDE DEF c
<1>4. c \in Seq(Blocks) /\ Len(c) \in 1..(MAX_HEIGHT + 1)
  <2>1. all \cup {b} \subseteq Blocks
    BY DEF ChainInv, TypeOK
  <2>2. PICK l \in Nat : l = m[b].height /\ l <= MAX_HEIGHT
    BY <1>2
  <2>3. l + 1 \in 1..(MAX_HEIGHT + 1)
    BY ONLY <2>2, LedgerAssumption
  <2>4. Len(c) = l + 1
    BY <1>3, <2>2
  <2>5. c \in Seq(Blocks)
    BY ONLY <1>3, <2>1
  <2> QED BY <2>3, <2>4, <2>5
<1>5. ReplayAcc(r, Len(c))
  BY <1>4, ApplyChainAcc
<1> HIDE DEF r
<1>6. CASE ~r.ok
  <2>1. Returns(b, body, "invalid") /\ UNCHANGED <<all, meta, active, utxos, supply>>
    BY <1>6 DEF Reorg, DiscardBlock, r, c
  <2> QED BY <2>1, RejectKeepsInv DEF Returns
<1>7. CASE r.ok
  <2>1. /\ all' = all \cup {b} /\ meta' = InsertMeta(b)
        /\ active' = c
        /\ utxos' = r.utxos /\ supply' = r.supply
        /\ Returns(b, body, "active")
    BY <1>7 DEF Reorg, InsertBlock, r, c
  <2>2. r = [ok |-> TRUE, utxos |-> utxos', supply |-> supply']
    <3>1. r = [ok |-> r.ok, utxos |-> r.utxos, supply |-> r.supply]
      BY <1>5 DEF ReplayAcc
    <3>2. r.ok = TRUE
      BY <1>7, <1>5 DEF ReplayAcc
    <3> QED BY <3>1, <3>2, <2>1
  <2>3. ApplyChain(active') = [ok |-> TRUE, utxos |-> utxos', supply |-> supply']
    BY <2>1, <2>2 DEF r
  <2>4. /\ active' \in Seq(all \cup {b}) /\ Len(active') \in 1..(MAX_HEIGHT + 1)
        /\ active'[1] = Genesis /\ active'[Len(active')] = b
    BY <1>3, <1>4, <2>1
  <2>5. \A i \in 1..Len(active') :
            /\ InsertMeta(b)[active'[i]].height = i - 1
            /\ i > 1 => BLOCK[active'[i]].prev = active'[i - 1]
    <3>1. \A i \in 1..Len(c) : /\ InsertMeta(b)[c[i]].height = i - 1
                               /\ i > 1 => BLOCK[c[i]].prev = c[i - 1]
      BY <1>3
    <3>2. active' = c
      BY <2>1
    <3> QED BY <3>1, <3>2
  <2> QED BY <1>0, <2>1, <2>3, <2>4, <2>5, ActivateKeepsInv
<1> QED BY <1>6, <1>7

\* Every call of add_block keeps the invariant.
LEMMA NextInv == ChainInv /\ [Next]_chainVars => ChainInv'
<1> SUFFICES ASSUME ChainInv, [Next]_chainVars PROVE ChainInv'
  OBVIOUS
<1> DEFINE Results == [block : Blocks, body : BOOLEAN,
                       res : {"duplicate", "unknown_parent", "invalid", "side",
                              "overflow", "active"}]
<1>1. ASSUME NEW b \in Blocks, NEW body \in BOOLEAN, RejectDuplicate(b, body)
      PROVE  ChainInv'
  <2>1. ret' \in Results
    BY <1>1 DEF RejectDuplicate, Returns
  <2> QED BY <1>1, <2>1, RejectKeepsInv DEF RejectDuplicate
<1>2. ASSUME NEW b \in Blocks, NEW body \in BOOLEAN, RejectUnknownParent(b, body)
      PROVE  ChainInv'
  <2>1. ret' \in Results
    BY <1>2 DEF RejectUnknownParent, Returns
  <2> QED BY <1>2, <2>1, RejectKeepsInv DEF RejectUnknownParent
<1>3. ASSUME NEW b \in Blocks, NEW body \in BOOLEAN, RejectHeader(b, body)
      PROVE  ChainInv'
  <2>1. ret' \in Results
    BY <1>3 DEF RejectHeader, Returns
  <2> QED BY <1>3, <2>1, RejectKeepsInv DEF RejectHeader
<1>4. ASSUME NEW b \in Blocks, NEW body \in BOOLEAN, KeepSideBlock(b, body)
      PROVE  ChainInv'
  BY <1>4, KeepSideBlockInv
<1>5. ASSUME NEW b \in Blocks, NEW body \in BOOLEAN, ExtendTip(b, body)
      PROVE  ChainInv'
  BY <1>5, ExtendTipInv
<1>6. ASSUME NEW b \in Blocks, NEW body \in BOOLEAN, Reorg(b, body)
      PROVE  ChainInv'
  BY <1>6, ReorgInv
<1>7. CASE UNCHANGED chainVars
  <2>1. ret' \in Results
    BY <1>7 DEF chainVars, ChainInv, TypeOK
  <2> QED BY <1>7, <2>1, RejectKeepsInv DEF chainVars
<1> QED BY <1>1, <1>2, <1>3, <1>4, <1>5, <1>6, <1>7 DEF Next, AddBlock

\* The inductive invariant holds in every reachable state of the block tree,
\* after any sequence of add_block calls.
THEOREM ChainInvariant == Spec => []ChainInv
<1>1. Init => ChainInv
  BY InitInv
<1>2. ChainInv /\ [Next]_chainVars => ChainInv'
  BY NextInv
<1> QED BY <1>1, <1>2, PTL DEF Spec

\* Every reachable chain state is well typed; in particular add_block never lets
\* the supply counter leave the range of a u64.
THEOREM TypeCorrect == Spec => []TypeOK
BY ChainInvariant, PTL DEF ChainInv

\* Fork choice of add_block: the active chain is a parent-linked path from
\* genesis and no known block has more cumulative work than its tip.
THEOREM ForkChoice == Spec => [](TipHasMostWork /\ ActiveIsPath /\ KnownTree)
BY ChainInvariant, PTL DEF ChainInv

\* The incrementally maintained UTXO map and supply of add_block's fast path are
\* exactly what apply_chain computes for the active chain.
THEOREM ReplayEquivalence == Spec => []LedgerIsReplay
BY ChainInvariant, PTL DEF ChainInv

\* The recorded supply never exceeds the emission schedule of the active height.
THEOREM NoInflation == Spec => []SupplyWithinSchedule
BY ChainInvariant, PTL DEF ChainInv

\* add_block changes the active chain only to one with strictly more work, and
\* then reports it: the first-seen branch wins a tie.
THEOREM TipGains == Spec => TipOnlyGains
<1> DEFINE A == active' # active => /\ meta'[active'[Len(active')]].cum_work > TipWork
                                    /\ ret'.res = "active"
                                    /\ ret'.block = active'[Len(active')]
<1>1. ASSUME ChainInv, [Next]_chainVars PROVE [A]_chainVars
  <2> SUFFICES ASSUME active' # active PROVE A
    OBVIOUS
  <2>1. PICK b \in Blocks, body \in BOOLEAN : ExtendTip(b, body) \/ Reorg(b, body)
    BY <1>1 DEF Next, AddBlock, chainVars, RejectDuplicate, RejectUnknownParent,
                RejectHeader, KeepSideBlock
  <2>2. Inserts(b, body) /\ NewMeta(b).cum_work > TipWork
    BY <2>1 DEF ExtendTip, Reorg, Outweighs
  <2>3. /\ meta' = InsertMeta(b) /\ Returns(b, body, "active")
        /\ active' = Append(active, b) \/ active' = Walk(InsertMeta(b), b)
    BY <2>1 DEF ExtendTip, Reorg, InsertBlock
  <2>4. active'[Len(active')] = b
    <3>1. CASE active' = Append(active, b)
      BY <3>1, <1>1 DEF ChainInv, TypeOK
    <3>2. CASE active' = Walk(InsertMeta(b), b)
      <4> DEFINE m == InsertMeta(b)
                 s == all \cup {b}
      <4>0. IsTree(m, s) /\ \A x \in s : m[x] \in Metas
        BY <1>1, <2>2, InsertKeepsTree
      <4>b. b \in s
        OBVIOUS
      <4> HIDE DEF m, s
      <4>1. \A x \in s : m[x].height \in Nat
        BY <4>0, LedgerAssumption DEF Metas
      <4>2. Walk(m, b)[Len(Walk(m, b))] = b
        BY <4>0, <4>b, <4>1, WalkIsPath
      <4> QED BY <3>2, <4>2 DEF m
    <3> QED BY <3>1, <3>2, <2>3
  <2>5. meta'[b] = NewMeta(b)
    BY <1>1, <2>2, <2>3, InsertKeepsTree
  <2> QED BY <2>2, <2>3, <2>4, <2>5 DEF Returns
<1>2. TipOnlyGains <=> [][A]_chainVars
  BY DEF TipOnlyGains
<1> QED BY <1>1, ChainInvariant, PTL DEF Spec, TipOnlyGains
-----------------------------------------------------------------------------
(***************************************************************************)
(* ChainState implements ForkChoice, for every block universe.  The        *)
(* cumulative work that meta counts up from parent to child is the work of *)
(* the block tree, and a step that inserts a block makes it the tip        *)
(* exactly when it is heavier: if it did not become the tip, the most      *)
(* work would no longer be there.                                          *)
(***************************************************************************)
\* The work recorded for each known block is that of the tree.
WorkIsOfTree == \A x \in all : meta[x].cum_work = FC!CumWork[x]

\* The tip is known, and recorded work is a number.
LEMMA TipIsKnown ==
    ASSUME ChainInv
    PROVE  /\ Tip \in all /\ TipWork = meta[Tip].cum_work
           /\ \A x \in all : x \in Blocks /\ meta[x].cum_work \in Nat
<1>1. Tip \in all
  BY DEF ChainInv, TypeOK, ActiveIsPath, Tip
<1>2. DOMAIN meta = all /\ all \subseteq Blocks
  BY DEF ChainInv, TypeOK, KnownTree, IsTree
<1>3. \A x \in all : meta[x].cum_work \in Nat
  BY <1>2 DEF ChainInv, TypeOK, Metas
<1> QED BY <1>1, <1>2, <1>3 DEF TipWork

\* What a call of add_block does to the known blocks and the tip.
LEMMA StepCases ==
    ASSUME ChainInv, [Next]_chainVars
    PROVE  \/ UNCHANGED <<all, meta, active>>
           \/ \E b \in Blocks, body \in BOOLEAN :
                 /\ Inserts(b, body)
                 /\ all' = all \cup {b} /\ meta' = InsertMeta(b)
                 /\ Outweighs(b) \/ UNCHANGED active
<1>1. CASE UNCHANGED chainVars
  BY <1>1 DEF chainVars
<1>2. ASSUME NEW b \in Blocks, NEW body \in BOOLEAN,
             RejectDuplicate(b, body) \/ RejectUnknownParent(b, body) \/ RejectHeader(b, body)
      PROVE  UNCHANGED <<all, meta, active>>
  BY <1>2 DEF RejectDuplicate, RejectUnknownParent, RejectHeader
<1>3. ASSUME NEW b \in Blocks, NEW body \in BOOLEAN, KeepSideBlock(b, body)
      PROVE  /\ Inserts(b, body) /\ UNCHANGED active
             /\ all' = all \cup {b} /\ meta' = InsertMeta(b)
  BY <1>3 DEF KeepSideBlock, InsertBlock
<1>4. ASSUME NEW b \in Blocks, NEW body \in BOOLEAN, ExtendTip(b, body)
      PROVE  \/ UNCHANGED <<all, meta, active>>
             \/ /\ Inserts(b, body) /\ Outweighs(b)
                /\ all' = all \cup {b} /\ meta' = InsertMeta(b)
  <2>1. Inserts(b, body) /\ Outweighs(b)
    BY <1>4 DEF ExtendTip
  <2>2. CASE ValidateOnTip(b).ok
    BY <1>4, <2>1, <2>2 DEF ExtendTip, InsertBlock
  <2>3. CASE ~ValidateOnTip(b).ok
    BY <1>4, <2>3 DEF ExtendTip, DiscardBlock
  <2> QED BY <2>2, <2>3
<1>5. ASSUME NEW b \in Blocks, NEW body \in BOOLEAN, Reorg(b, body)
      PROVE  \/ UNCHANGED <<all, meta, active>>
             \/ /\ Inserts(b, body) /\ Outweighs(b)
                /\ all' = all \cup {b} /\ meta' = InsertMeta(b)
  <2>1. Inserts(b, body) /\ Outweighs(b)
    BY <1>5 DEF Reorg
  <2>2. CASE ApplyChain(Walk(InsertMeta(b), b)).ok
    BY <1>5, <2>1, <2>2 DEF Reorg, InsertBlock
  <2>3. CASE ~ApplyChain(Walk(InsertMeta(b), b)).ok
    BY <1>5, <2>3 DEF Reorg, DiscardBlock
  <2> QED BY <2>2, <2>3
<1> QED BY <1>1, <1>2, <1>3, <1>4, <1>5 DEF Next, AddBlock

\* An inserted block has the work of its parent and its own.
LEMMA InsertedWork ==
    ASSUME ChainInv, WorkIsOfTree, NEW b \in Blocks, NEW body \in BOOLEAN, Inserts(b, body)
    PROVE  /\ b \notin all /\ BLOCK[b].prev \in all
           /\ InsertMeta(b)[b].cum_work = FC!CumWork[b]
           /\ NewMeta(b).cum_work = FC!CumWork[b] /\ FC!CumWork[b] \in Nat
           /\ \A x \in all : InsertMeta(b)[x] = meta[x]
<1>1. b \notin all /\ BLOCK[b].prev \in all /\ Genesis \in all /\ all \subseteq Blocks
  BY DEF Inserts, ChainInv, KnownTree, IsTree, TypeOK
<1>2. /\ \A x \in all : InsertMeta(b)[x] = meta[x]
      /\ InsertMeta(b)[b] = NewMeta(b)
  BY InsertKeepsTree
<1>3. NewMeta(b).cum_work = FC!CumWork[BLOCK[b].prev] + WORK(BLOCK[b].bits)
  BY <1>1 DEF NewMeta, WorkIsOfTree
<1>4. FC!CumWork[b] = FC!CumWork[BLOCK[b].prev] + WORK(BLOCK[b].bits)
  BY <1>1, WorkAssumption
<1>5. FC!CumWork[BLOCK[b].prev] \in Nat
  BY <1>1, TipIsKnown DEF WorkIsOfTree
<1> QED BY <1>1, <1>2, <1>3, <1>4, <1>5, BlocksAssumption

LEMMA WorkInit == Init => WorkIsOfTree
  BY WorkAssumption DEF Init, WorkIsOfTree

LEMMA WorkStep == ChainInv /\ WorkIsOfTree /\ [Next]_chainVars => WorkIsOfTree'
<1> SUFFICES ASSUME ChainInv, WorkIsOfTree, [Next]_chainVars PROVE WorkIsOfTree'
  OBVIOUS
<1>1. CASE UNCHANGED <<all, meta, active>>
  BY <1>1 DEF WorkIsOfTree
<1>2. ASSUME NEW b \in Blocks, NEW body \in BOOLEAN, Inserts(b, body),
             all' = all \cup {b}, meta' = InsertMeta(b)
      PROVE  WorkIsOfTree'
  BY <1>2, InsertedWork DEF WorkIsOfTree
<1> QED BY <1>1, <1>2, StepCases

\* A block that is inserted becomes the tip exactly when it is heavier.
LEMMA StepImplements ==
    ChainInv /\ ChainInv' /\ WorkIsOfTree /\ WorkIsOfTree' /\ [Next]_chainVars
        => [FC!Next]_<<all, Tip>>
<1> SUFFICES ASSUME ChainInv, ChainInv', WorkIsOfTree, WorkIsOfTree', [Next]_chainVars
             PROVE  FC!Next \/ UNCHANGED <<all, Tip>>
  OBVIOUS
<1>1. CASE UNCHANGED <<all, meta, active>>
  BY <1>1 DEF Tip
<1>2. ASSUME NEW b \in Blocks, NEW body \in BOOLEAN, Inserts(b, body),
             all' = all \cup {b}, meta' = InsertMeta(b),
             Outweighs(b) \/ UNCHANGED active
      PROVE  FC!Next
  <2>1. /\ b \notin all /\ BLOCK[b].prev \in all
        /\ NewMeta(b).cum_work = FC!CumWork[b] /\ FC!CumWork[b] \in Nat
        /\ \A x \in all : meta'[x] = meta[x]
    BY <1>2, InsertedWork
  <2>2. Tip \in all /\ TipWork = FC!CumWork[Tip] /\ TipWork \in Nat
    BY TipIsKnown DEF WorkIsOfTree
  <2>3. CASE FC!CumWork[b] > FC!CumWork[Tip]
    <3>1. Tip' \in all \cup {b} /\ TipWork' = FC!CumWork[Tip']
      <4>1. Tip' \in all' /\ TipWork' = meta'[Tip'].cum_work
        BY DEF ChainInv, TypeOK, ActiveIsPath, Tip, TipWork
      <4> QED BY <1>2, <4>1 DEF WorkIsOfTree
    <3>2. FC!CumWork[b] <= TipWork'
      <4>1. b \in all' /\ meta'[b].cum_work = FC!CumWork[b]
        BY <1>2 DEF WorkIsOfTree
      <4> QED BY <4>1 DEF ChainInv, TipHasMostWork
    <3>3. ASSUME Tip' \in all PROVE FALSE
      <4>1. FC!CumWork[Tip'] = meta[Tip'].cum_work /\ meta[Tip'].cum_work <= TipWork
        BY <3>3 DEF WorkIsOfTree, ChainInv, TipHasMostWork
      <4>2. meta[Tip'].cum_work \in Nat
        BY <3>3, TipIsKnown
      <4> QED BY <2>1, <2>2, <2>3, <3>1, <3>2, <4>1, <4>2
    <3>4. Tip' = b
      BY <3>1, <3>3
    <3> QED BY <1>2, <2>1, <2>3, <3>4 DEF FC!Next, FC!Accept, FC!Heavier
  <2>4. CASE ~(FC!CumWork[b] > FC!CumWork[Tip])
    <3>1. ~Outweighs(b)
      BY <2>1, <2>2, <2>4 DEF Outweighs
    <3>2. Tip' = Tip
      BY <1>2, <3>1 DEF Tip
    <3> QED BY <1>2, <2>1, <2>4, <3>2 DEF FC!Next, FC!Accept, FC!Heavier
  <2> QED BY <2>3, <2>4
<1> QED BY <1>1, <1>2, StepCases

\* add_block implements the abstract fork choice: whether a block extends the
\* tip, waits on a side branch, wins a reorganisation or loses one halfway, the
\* known blocks grow parents first and the tip moves exactly to a new block of
\* more cumulative work.
THEOREM RefinesForkChoice == Spec => ImplementsForkChoice
<1>1. Init => FC!Init
  BY DEF Init, FC!Init, Tip
<1>2. ChainInv /\ ChainInv' /\ WorkIsOfTree /\ WorkIsOfTree' /\ [Next]_chainVars
         => [FC!Next]_<<all, Tip>>
  BY StepImplements
<1>3. Spec => []WorkIsOfTree
  <2>1. Init => WorkIsOfTree
    BY WorkInit
  <2>2. ChainInv /\ WorkIsOfTree /\ [Next]_chainVars => WorkIsOfTree'
    BY WorkStep
  <2> QED BY <2>1, <2>2, ChainInvariant, PTL DEF Spec
<1> QED BY <1>1, <1>2, <1>3, ChainInvariant, PTL DEF Spec, ImplementsForkChoice, FC!Spec

-----------------------------------------------------------------------------
(***************************************************************************)
(* What the UTXO map means.  Along any chain that replays, the map holds   *)
(* exactly the outputs created and not yet spent, no output is spent       *)
(* twice, every spend respected the locks of what it spent, and the value  *)
(* in the map never exceeds what was minted.                               *)
(*                                                                         *)
(* The invariant of the replay is stated over the transactions applied so  *)
(* far: F maps the place <<i, k>> of a transaction (k-th of the block at   *)
(* height i - 1) to the transaction.  Within a block the coinbase comes    *)
(* last, so the places of F are not a prefix of the chain there.           *)
(***************************************************************************)
Places == (Nat \ {0}) \X (Nat \ {0})

Outs(F) == UNION {Created(F[p]) : p \in DOMAIN F}
Ins(F)  == UNION {Spent(F[p]) : p \in DOMAIN F}

\* Input i of the transaction at q may spend what the transaction at p created.
LockKept(F, p, q, i) ==
    LET op == F[q].inputs[i]
        o  == F[p].outputs[op[2]]
    IN  op \in Created(F[p]) =>
          /\ p[2] = 1 => q[1] >= p[1] + COINBASE_MATURITY
          /\ q[1] - 1 >= o.lock.height
          /\ F[q].witnesses[i].pubkey = o.lock.pkh

\* The places and kinds of the transactions; no two have the same id.
PlacesOk(F) ==
    /\ DOMAIN F \subseteq Places
    /\ \A p \in DOMAIN F :
          /\ F[p] \in Txs
          /\ p[2] = 1 => IsCoinbase(F[p]) /\ F[p].data = p[1] - 1
          /\ p[2] # 1 => ~IsCoinbase(F[p])
    /\ \A p, q \in DOMAIN F : p # q => F[p].txid # F[q].txid

\* The map is what the transactions left unspent.
LeftUnspent(F, u) ==
    /\ IsUtxoMap(u) /\ IsFiniteSet(DOMAIN u)
    /\ DOMAIN u = Outs(F) \ Ins(F)
    /\ Ins(F) \subseteq Outs(F)
    /\ \A p, q \in DOMAIN F : p # q => Spent(F[p]) \cap Spent(F[q]) = {}
    /\ \A p \in DOMAIN F : \A op \in Created(F[p]) \cap DOMAIN u :
          u[op] = [output |-> F[p].outputs[op[2]], height |-> p[1] - 1,
                   coinbase |-> (p[2] = 1)]

LocksKept(F) ==
    \A p, q \in DOMAIN F : \A i \in DOMAIN F[q].inputs : LockKept(F, p, q, i)

\* The invariant of the replay.
Hist(F, u) == PlacesOk(F) /\ LeftUnspent(F, u) /\ LocksKept(F)

\* G is F with one more transaction.
Extends(G, F, q, tx) ==
    /\ q \in Places /\ q \notin DOMAIN F
    /\ DOMAIN G = DOMAIN F \cup {q}
    /\ G[q] = tx
    /\ \A p \in DOMAIN F : G[p] = F[p]

-----------------------------------------------------------------------------
\* Outputs of transactions with different ids are different outpoints.
LEMMA CreatedApart ==
  ASSUME NEW F, PlacesOk(F), NEW tx \in Txs, \A p \in DOMAIN F : F[p].txid # tx.txid
  PROVE  Outs(F) \cap Created(tx) = {}
<1> SUFFICES ASSUME NEW p \in DOMAIN F, NEW op \in Created(F[p]), op \in Created(tx)
             PROVE  FALSE
  BY DEF Outs
<1>1. op[1] = F[p].txid
  BY CreatedFacts DEF PlacesOk
<1>2. op[1] = tx.txid
  BY CreatedFacts
<1> QED BY <1>1, <1>2

\* What the map says of an output of the chain, and who created it.
LEMMA HeldFacts ==
  ASSUME NEW F, NEW u, Hist(F, u), NEW op \in DOMAIN u
  PROVE  /\ op \in Outs(F) /\ op \notin Ins(F)
         /\ \E p \in DOMAIN F : op \in Created(F[p])
         /\ \A p \in DOMAIN F : op \in Created(F[p]) =>
              /\ u[op].output = F[p].outputs[op[2]]
              /\ u[op].height = p[1] - 1
              /\ u[op].coinbase = (p[2] = 1)
<1>1. op \in Outs(F) /\ op \notin Ins(F)
  BY DEF Hist, LeftUnspent
<1>2. \E p \in DOMAIN F : op \in Created(F[p])
  BY <1>1 DEF Outs
<1>3. ASSUME NEW p \in DOMAIN F, op \in Created(F[p])
      PROVE  /\ u[op].output = F[p].outputs[op[2]]
             /\ u[op].height = p[1] - 1
             /\ u[op].coinbase = (p[2] = 1)
  <2>1. u[op] = [output |-> F[p].outputs[op[2]], height |-> p[1] - 1,
                 coinbase |-> (p[2] = 1)]
    BY <1>3 DEF Hist, LeftUnspent
  <2> QED BY <2>1
<1> QED BY <1>1, <1>2, <1>3

\* A transaction that spends unspent outputs has an id of its own: another with
\* its id would have spent them before.
LEMMA SpenderIsFresh ==
  ASSUME NEW F, NEW u, Hist(F, u), NEW tx \in Txs, tx.inputs # <<>>,
         Spent(tx) \subseteq DOMAIN u
  PROVE  \A p \in DOMAIN F : F[p].txid # tx.txid
<1> SUFFICES ASSUME NEW p \in DOMAIN F, F[p].txid = tx.txid PROVE FALSE
  OBVIOUS
<1>1. F[p].inputs = tx.inputs
  BY TxidAssumption DEF Hist, PlacesOk
<1>2. tx.inputs \in Seq(OutPoints)
  BY TxFields
<1>3. 1 \in DOMAIN tx.inputs
  BY <1>2
<1>4. tx.inputs[1] \in Spent(tx) /\ tx.inputs[1] \in Spent(F[p])
  BY <1>1, <1>3 DEF Spent
<1>5. tx.inputs[1] \in Ins(F)
  BY <1>4 DEF Ins
<1> QED BY <1>4, <1>5, HeldFacts

\* A coinbase has an id of its own: it carries its height.
LEMMA CoinbaseIsFresh ==
  ASSUME NEW F, PlacesOk(F), NEW n \in Nat, <<n + 1, 1>> \notin DOMAIN F,
         NEW tx \in Txs, IsCoinbase(tx), tx.data = n
  PROVE  \A p \in DOMAIN F : F[p].txid # tx.txid
<1> SUFFICES ASSUME NEW p \in DOMAIN F, F[p].txid = tx.txid PROVE FALSE
  OBVIOUS
<1>1. F[p].inputs = tx.inputs /\ F[p].data = tx.data
  BY TxidAssumption DEF PlacesOk
<1>2. p[2] = 1 /\ p[1] - 1 = n
  BY <1>1 DEF PlacesOk, IsCoinbase
<1>3. PICK i \in Nat, k \in Nat : p = <<i, k>>
  BY DEF PlacesOk, Places
<1>4. i = n + 1 /\ k = 1
  BY <1>2, <1>3
<1> QED BY <1>3, <1>4

-----------------------------------------------------------------------------
\* What apply_tx needs of the transaction at q for the invariant to go on.
Appliable(F, u, q, tx) ==
    /\ q[2] = 1 => IsCoinbase(tx) /\ tx.data = q[1] - 1
    /\ q[2] # 1 => ~IsCoinbase(tx)
    /\ \A p \in DOMAIN F : F[p].txid # tx.txid
    /\ Spent(tx) \subseteq DOMAIN u
    /\ \A i \in DOMAIN tx.inputs :
          LET o == u[tx.inputs[i]]
          IN  /\ o.coinbase => q[1] - 1 >= o.height + COINBASE_MATURITY
              /\ q[1] - 1 >= o.output.lock.height
              /\ tx.witnesses[i].pubkey = o.output.lock.pkh

\* What the sets of outpoints become.
LEMMA ExtendSets ==
  ASSUME NEW F, NEW G, NEW q, NEW tx, Extends(G, F, q, tx)
  PROVE  Outs(G) = Outs(F) \cup Created(tx) /\ Ins(G) = Ins(F) \cup Spent(tx)
<1>1. \A p \in DOMAIN G : (p \in DOMAIN F /\ G[p] = F[p]) \/ (p = q /\ G[p] = tx)
  BY DEF Extends
<1>2. q \in DOMAIN G /\ G[q] = tx /\ \A p \in DOMAIN F : p \in DOMAIN G /\ G[p] = F[p]
  BY DEF Extends
<1>3. Outs(G) = Outs(F) \cup Created(tx)
  <2>1. ASSUME NEW op \in Outs(G) PROVE op \in Outs(F) \cup Created(tx)
    <3>1. PICK p \in DOMAIN G : op \in Created(G[p])
      BY DEF Outs
    <3> QED BY <1>1, <3>1 DEF Outs
  <2>2. ASSUME NEW op \in Outs(F) PROVE op \in Outs(G)
    <3>1. PICK p \in DOMAIN F : op \in Created(F[p])
      BY DEF Outs
    <3>2. p \in DOMAIN G /\ op \in Created(G[p])
      BY <1>2, <3>1
    <3> QED BY <3>2 DEF Outs
  <2>3. Created(tx) \subseteq Outs(G)
    BY <1>2 DEF Outs
  <2> QED BY <2>1, <2>2, <2>3
<1>4. Ins(G) = Ins(F) \cup Spent(tx)
  <2>1. ASSUME NEW op \in Ins(G) PROVE op \in Ins(F) \cup Spent(tx)
    <3>1. PICK p \in DOMAIN G : op \in Spent(G[p])
      BY DEF Ins
    <3> QED BY <1>1, <3>1 DEF Ins
  <2>2. ASSUME NEW op \in Ins(F) PROVE op \in Ins(G)
    <3>1. PICK p \in DOMAIN F : op \in Spent(F[p])
      BY DEF Ins
    <3>2. p \in DOMAIN G /\ op \in Spent(G[p])
      BY <1>2, <3>1
    <3> QED BY <3>2 DEF Ins
  <2>3. Spent(tx) \subseteq Ins(G)
    BY <1>2 DEF Ins
  <2> QED BY <2>1, <2>2, <2>3
<1> QED BY <1>3, <1>4

\* One more transaction: its inputs leave the map, its outputs enter it.
LEMMA ApplyKeepsHist ==
  ASSUME NEW F, NEW u, Hist(F, u), NEW q, NEW tx \in Txs, NEW G, Extends(G, F, q, tx),
         Appliable(F, u, q, tx)
  PROVE  Hist(G, ApplyTx(tx, q[1] - 1, q[2] = 1, u))
<1>0. q \in Places /\ q[1] - 1 \in Nat /\ (q[2] = 1) \in BOOLEAN
  BY DEF Extends, Places
<1>1. PICK v : v = ApplyTx(tx, q[1] - 1, q[2] = 1, u)
  OBVIOUS
<1>2. /\ DOMAIN v = (DOMAIN u \ Spent(tx)) \cup Created(tx)
      /\ \A op \in Created(tx) :
            v[op] = [output |-> tx.outputs[op[2]], height |-> q[1] - 1, coinbase |-> (q[2] = 1)]
      /\ \A op \in DOMAIN v \ Created(tx) : op \in DOMAIN u /\ v[op] = u[op]
  BY <1>1 DEF ApplyTx
<1>3. IsUtxoMap(v)
  BY <1>0, <1>1, ApplyTxType DEF Hist, LeftUnspent
<1>4. /\ PlacesOk(F) /\ IsFiniteSet(DOMAIN u) /\ DOMAIN u = Outs(F) \ Ins(F)
      /\ Ins(F) \subseteq Outs(F)
  BY DEF Hist, LeftUnspent
<1>5. \A p \in DOMAIN F : F[p].txid # tx.txid
  BY DEF Appliable
<1>6. Outs(F) \cap Created(tx) = {}
  BY <1>4, <1>5, CreatedApart
<1>7. Spent(tx) \subseteq Outs(F) /\ Spent(tx) \cap Ins(F) = {} /\ Spent(tx) \cap Created(tx) = {}
  BY <1>4, <1>6 DEF Appliable
<1>8. Outs(G) = Outs(F) \cup Created(tx) /\ Ins(G) = Ins(F) \cup Spent(tx)
  BY ExtendSets
<1>9. \A p \in DOMAIN G : (p \in DOMAIN F /\ G[p] = F[p]) \/ (p = q /\ G[p] = tx)
  BY DEF Extends
<1>10. PlacesOk(G)
  <2>1. DOMAIN G \subseteq Places
    BY <1>0, <1>4 DEF Extends, PlacesOk
  <2>2. ASSUME NEW p \in DOMAIN G
        PROVE  /\ G[p] \in Txs
               /\ p[2] = 1 => IsCoinbase(G[p]) /\ G[p].data = p[1] - 1
               /\ p[2] # 1 => ~IsCoinbase(G[p])
    BY <1>4, <1>9 DEF PlacesOk, Appliable
  <2>3. ASSUME NEW p \in DOMAIN G, NEW r \in DOMAIN G, p # r PROVE G[p].txid # G[r].txid
    <3>1. p \in DOMAIN F /\ r \in DOMAIN F => F[p].txid # F[r].txid
      BY <1>4, <2>3 DEF PlacesOk
    <3> QED BY <1>5, <1>9, <2>3, <3>1
  <2> QED BY <2>1, <2>2, <2>3 DEF PlacesOk
<1>11. LeftUnspent(G, v)
  <2>1. IsFiniteSet(DOMAIN v)
    <3>1. IsFiniteSet(DOMAIN u \ Spent(tx))
      BY <1>4, FS_Subset
    <3>2. IsFiniteSet(Created(tx))
      BY CreatedFacts
    <3>3. IsFiniteSet((DOMAIN u \ Spent(tx)) \cup Created(tx))
      BY ONLY <3>1, <3>2, FS_Union
    <3> QED BY <1>2, <3>3
  <2>2. DOMAIN v = Outs(G) \ Ins(G)
    BY <1>2, <1>4, <1>6, <1>7, <1>8
  <2>3. Ins(G) \subseteq Outs(G)
    BY <1>4, <1>7, <1>8
  <2>4. ASSUME NEW p \in DOMAIN G, NEW r \in DOMAIN G, p # r
        PROVE  Spent(G[p]) \cap Spent(G[r]) = {}
    <3>1. p \in DOMAIN F /\ r \in DOMAIN F => Spent(F[p]) \cap Spent(F[r]) = {}
      BY <2>4 DEF Hist, LeftUnspent
    <3>2. \A s \in DOMAIN F : Spent(F[s]) \subseteq Ins(F)
      BY DEF Ins
    <3> QED BY <1>7, <1>9, <2>4, <3>1, <3>2
  <2>5. ASSUME NEW p \in DOMAIN G, NEW op \in Created(G[p]) \cap DOMAIN v
        PROVE  v[op] = [output |-> G[p].outputs[op[2]], height |-> p[1] - 1,
                        coinbase |-> (p[2] = 1)]
    <3>1. CASE p = q /\ G[p] = tx
      BY <1>2, <2>5, <3>1
    <3>2. CASE p \in DOMAIN F /\ G[p] = F[p]
      <4>1. op \in Outs(F)
        BY <2>5, <3>2 DEF Outs
      <4>2. op \in DOMAIN u /\ v[op] = u[op]
        BY <1>2, <1>6, <2>5, <4>1
      <4>3. u[op] = [output |-> F[p].outputs[op[2]], height |-> p[1] - 1,
                     coinbase |-> (p[2] = 1)]
        BY <2>5, <3>2, <4>2 DEF Hist, LeftUnspent
      <4> QED BY <3>2, <4>2, <4>3
    <3> QED BY <1>9, <3>1, <3>2
  <2> QED BY <1>3, <2>1, <2>2, <2>3, <2>4, <2>5 DEF LeftUnspent
<1>12. LocksKept(G)
  <2> SUFFICES ASSUME NEW p \in DOMAIN G, NEW r \in DOMAIN G, NEW i \in DOMAIN G[r].inputs,
                      G[r].inputs[i] \in Created(G[p])
               PROVE  LockKept(G, p, r, i)
    BY DEF LocksKept, LockKept
  <2>1. G[r].inputs[i] \in Spent(G[r])
    BY DEF Spent
  <2>2. CASE r \in DOMAIN F /\ G[r] = F[r]
    <3>1. G[r].inputs[i] \in Ins(F)
      BY <2>1, <2>2 DEF Ins
    <3>2. p \in DOMAIN F /\ G[p] = F[p]
      BY <1>4, <1>6, <1>9, <3>1
    <3>3. LockKept(F, p, r, i)
      BY <2>2, <3>2 DEF Hist, LocksKept
    <3> QED BY <2>2, <3>2, <3>3 DEF LockKept
  <2>3. CASE r = q /\ G[r] = tx
    <3>1. PICK op : op = tx.inputs[i]
      OBVIOUS
    <3>2. op \in DOMAIN u /\ op \in Created(G[p]) /\ op \notin Created(tx)
      BY <1>7, <2>1, <2>3, <3>1 DEF Appliable
    <3>3. p \in DOMAIN F /\ G[p] = F[p]
      BY <1>9, <3>2
    <3>4. /\ u[op].output = F[p].outputs[op[2]] /\ u[op].height = p[1] - 1
          /\ u[op].coinbase = (p[2] = 1)
      BY <3>2, <3>3, HeldFacts
    <3>5. /\ u[op].coinbase => q[1] - 1 >= u[op].height + COINBASE_MATURITY
          /\ q[1] - 1 >= u[op].output.lock.height
          /\ tx.witnesses[i].pubkey = u[op].output.lock.pkh
      BY <2>3, <3>1 DEF Appliable
    <3>6. p[2] = 1 => q[1] >= p[1] + COINBASE_MATURITY
      <4>1. p \in Places
        BY <1>4, <3>3 DEF PlacesOk
      <4>2. PICK a \in Nat, b \in Nat, m \in Nat : p[1] = a /\ q[1] = b /\ m = COINBASE_MATURITY
        BY <1>0, <4>1, LedgerAssumption DEF Places
      <4>3. p[2] = 1 => b - 1 >= (a - 1) + m
        BY <3>4, <3>5, <4>2
      <4>4. b - 1 >= (a - 1) + m => b >= a + m
        BY ONLY <4>2
      <4> QED BY <4>2, <4>3, <4>4
    <3> QED BY <2>3, <3>1, <3>3, <3>4, <3>5, <3>6 DEF LockKept
  <2> QED BY <1>9, <2>2, <2>3
<1> QED BY <1>1, <1>10, <1>11, <1>12 DEF Hist

-----------------------------------------------------------------------------
(***************************************************************************)
(* A block.                                                                *)
(***************************************************************************)
\* The places of the first n blocks of c; with them, those of the next block's
\* transactions 2..m.
Done(c, n)       == UNION {{<<i, k>> : k \in DOMAIN BLOCK[c[i]].txs} : i \in 1..n}
DoneTo(c, n, m)  == Done(c, n) \cup {<<n + 1, k>> : k \in 2..m}
At(c, A)         == [p \in A |-> BLOCK[c[p[1]]].txs[p[2]]]

LEMMA DoneFacts ==
  ASSUME NEW c, NEW n \in Nat
  PROVE  /\ \A p \in Done(c, n) : p[1] \in 1..n
         /\ \A m : \A k : <<n + 1, k>> \in DoneTo(c, n, m) => k \in 2..m
         /\ DoneTo(c, n, 1) = Done(c, n)
         /\ \A m \in Nat : DoneTo(c, n, m + 2) = DoneTo(c, n, m + 1) \cup {<<n + 1, m + 2>>}
<1>1. ASSUME NEW p \in Done(c, n) PROVE p[1] \in 1..n
  BY DEF Done
<1>2. ASSUME NEW m, NEW k, <<n + 1, k>> \in DoneTo(c, n, m) PROVE k \in 2..m
  <2>1. PICK p : p = <<n + 1, k>>
    OBVIOUS
  <2>2. p \notin Done(c, n)
    BY <1>1, <2>1
  <2>3. PICK j \in 2..m : p = <<n + 1, j>>
    BY <1>2, <2>1, <2>2 DEF DoneTo
  <2> QED BY <2>1, <2>3
<1>3. DoneTo(c, n, 1) = Done(c, n)
  <2>1. 2..1 = {}
    OBVIOUS
  <2> QED BY <2>1 DEF DoneTo
<1>4. ASSUME NEW m \in Nat
      PROVE  DoneTo(c, n, m + 2) = DoneTo(c, n, m + 1) \cup {<<n + 1, m + 2>>}
  <2>1. 2..(m + 2) = 2..(m + 1) \cup {m + 2}
    OBVIOUS
  <2> QED BY <2>1 DEF DoneTo
<1> QED BY <1>1, <1>2, <1>3, <1>4

\* The places of a block: its coinbase and the transactions after it.
LEMMA DoneBlock ==
  ASSUME NEW c, NEW n \in Nat, BLOCK[c[n + 1]].txs \in Seq(Txs), BLOCK[c[n + 1]].txs # <<>>
  PROVE  Done(c, n + 1) = DoneTo(c, n, Len(BLOCK[c[n + 1]].txs)) \cup {<<n + 1, 1>>}
<1>1. PICK len \in Nat : len = Len(BLOCK[c[n + 1]].txs) /\ len # 0
  OBVIOUS
<1>2. DOMAIN BLOCK[c[n + 1]].txs = 1..len
  BY <1>1
<1>3. 1..len = 2..len \cup {1} /\ 1..(n + 1) = 1..n \cup {n + 1}
  BY ONLY <1>1, n \in Nat
<1>4. Done(c, n + 1) = Done(c, n) \cup {<<n + 1, k>> : k \in 1..len}
  BY <1>2, <1>3 DEF Done
<1> QED BY <1>1, <1>3, <1>4 DEF DoneTo

\* One more place in At.
LEMMA AtExtends ==
  ASSUME NEW c, NEW A, NEW q \in Places, q \notin A
  PROVE  Extends(At(c, A \cup {q}), At(c, A), q, BLOCK[c[q[1]]].txs[q[2]])
BY DEF At, Extends

LEMMA FeeArithmetic ==
  \A a, b, i, o \in Nat : b + i = a + o =>
      /\ o <= i => b + (i - o) = a /\ i - o \in Nat
      /\ i = 0 => b = a + o
OBVIOUS

\* A transaction that check_tx accepts is appliable, and what the map holds
\* changes by its fee.
LEMMA SpenderKeepsHist ==
  ASSUME NEW F, NEW u, Hist(F, u), NEW n \in Nat, NEW k \in Nat, k > 1, NEW tx \in Txs,
         NEW G, Extends(G, F, <<n + 1, k>>, tx), TxOk(tx, n, u)
  PROVE  /\ Hist(G, ApplyTx(tx, n, FALSE, u))
         /\ UtxoTotal(ApplyTx(tx, n, FALSE, u)) + Fee(tx, u) = UtxoTotal(u)
         /\ UtxoTotal(u) \in Nat /\ UtxoTotal(ApplyTx(tx, n, FALSE, u)) \in Nat
         /\ Fee(tx, u) \in Nat
<1>1. PICK q : q = <<n + 1, k>>
  OBVIOUS
<1>2. q[1] - 1 = n /\ (q[2] = 1) = FALSE
  BY <1>1
<1>3. /\ \A i \in DOMAIN tx.inputs : InputOk(tx, i, n, u)
      /\ tx.inputs # <<>>
      /\ \A i, j \in DOMAIN tx.inputs : i # j => tx.inputs[i] # tx.inputs[j]
      /\ OutTotal(tx) <= InTotal(tx, u)
  BY DEF TxOk
<1>4. Spent(tx) \subseteq DOMAIN u
  BY <1>3 DEF InputOk, Spent
<1>5. \A p \in DOMAIN F : F[p].txid # tx.txid
  BY <1>3, <1>4, SpenderIsFresh
<1>6. \A i \in DOMAIN tx.inputs :
        /\ u[tx.inputs[i]].coinbase => n >= u[tx.inputs[i]].height + COINBASE_MATURITY
        /\ n >= u[tx.inputs[i]].output.lock.height
        /\ tx.witnesses[i].pubkey = u[tx.inputs[i]].output.lock.pkh
  BY <1>3 DEF InputOk
<1>7. Appliable(F, u, q, tx)
  BY <1>2, <1>3, <1>4, <1>5, <1>6 DEF Appliable, IsCoinbase
<1>8. Hist(G, ApplyTx(tx, n, FALSE, u))
  <2>1. Hist(G, ApplyTx(tx, q[1] - 1, q[2] = 1, u))
    BY <1>1, <1>7, ApplyKeepsHist
  <2> QED BY <1>2, <2>1
<1>9. IsUtxoMap(u) /\ IsFiniteSet(DOMAIN u) /\ PlacesOk(F) /\ DOMAIN u \subseteq Outs(F)
  BY DEF Hist, LeftUnspent
<1>10. Created(tx) \cap DOMAIN u = {}
  BY <1>5, <1>9, CreatedApart
<1>11. UtxoTotal(ApplyTx(tx, n, FALSE, u)) + InTotal(tx, u) = UtxoTotal(u) + OutTotal(tx)
  BY <1>3, <1>4, <1>9, <1>10, ApplyTxTotal
<1>12. InTotal(tx, u) \in Nat /\ OutTotal(tx) \in Nat
  BY <1>4, <1>9, InTotalType, OutTotalType
<1>13. UtxoTotal(u) \in Nat /\ UtxoTotal(ApplyTx(tx, n, FALSE, u)) \in Nat
  BY <1>8, <1>9, AmountsType DEF Hist, LeftUnspent
<1>14. PICK a \in Nat, b \in Nat, i \in Nat, o \in Nat :
          /\ a = UtxoTotal(u) /\ b = UtxoTotal(ApplyTx(tx, n, FALSE, u))
          /\ i = InTotal(tx, u) /\ o = OutTotal(tx)
  BY <1>12, <1>13
<1>15. b + (i - o) = a /\ i - o \in Nat
  <2>1. b + i = a + o /\ o <= i
    BY <1>3, <1>11, <1>14
  <2> QED BY <2>1, FeeArithmetic
<1>16. Fee(tx, u) = i - o
  BY <1>14 DEF Fee
<1> QED BY <1>8, <1>13, <1>14, <1>15, <1>16

\* Where the coinbase of the block at height n stands.
CoinbasePlace(n) == <<n + 1, 1>>

\* The map u with the coinbase tx of height n applied, against the history G.
CoinbaseKept(G, u, n, tx) ==
    /\ Hist(G, ApplyTx(tx, n, TRUE, u))
    /\ UtxoTotal(ApplyTx(tx, n, TRUE, u)) = UtxoTotal(u) + OutTotal(tx)
    /\ UtxoTotal(u) \in Nat

\* A coinbase of the right height is appliable once its block's other
\* transactions are applied, and adds its outputs to what the map holds.
LEMMA CoinbaseKeepsHist ==
  ASSUME NEW F, NEW u, Hist(F, u), NEW n \in Nat, NEW tx \in Txs,
         NEW q, q = CoinbasePlace(n),
         NEW G, Extends(G, F, q, tx), IsCoinbase(tx), tx.data = n
  PROVE  CoinbaseKept(G, u, n, tx)
<1>1. q = <<n + 1, 1>>
  BY DEF CoinbasePlace
<1>2. q[1] - 1 = n /\ (q[2] = 1) = TRUE
  BY <1>1
<1>3. DOMAIN tx.inputs = {} /\ Spent(tx) = {}
  BY DEF IsCoinbase, Spent
<1>4. IsUtxoMap(u) /\ IsFiniteSet(DOMAIN u) /\ PlacesOk(F) /\ DOMAIN u \subseteq Outs(F)
  BY DEF Hist, LeftUnspent
<1>5. \A p \in DOMAIN F : F[p].txid # tx.txid
  BY <1>1, <1>4, CoinbaseIsFresh DEF Extends
<1>6. Appliable(F, u, q, tx)
  BY <1>2, <1>3, <1>5 DEF Appliable
<1>7. Hist(G, ApplyTx(tx, n, TRUE, u))
  <2>1. Hist(G, ApplyTx(tx, q[1] - 1, q[2] = 1, u))
    BY <1>1, <1>6, ApplyKeepsHist
  <2> QED BY <1>2, <2>1
<1>8. Created(tx) \cap DOMAIN u = {}
  BY <1>4, <1>5, CreatedApart
<1>9. UtxoTotal(ApplyTx(tx, n, TRUE, u)) + InTotal(tx, u) = UtxoTotal(u) + OutTotal(tx)
  BY <1>3, <1>4, <1>8, ApplyTxTotal
<1>10. InTotal(tx, u) = 0
  <2>1. PICK t : t = [i \in DOMAIN tx.inputs |-> u[tx.inputs[i]].output.amount]
    OBVIOUS
  <2>2. tx.inputs = <<>>
    BY DEF IsCoinbase
  <2>3. t = <<>>
    BY <2>1, <2>2
  <2>4. Len(t) = 0 /\ Len(t) \in Nat
    BY <2>3
  <2>5. Sums(t)[0] = 0
    BY <2>4, SumsStep
  <2> QED BY <2>1, <2>4, <2>5 DEF InTotal, Total
<1>11. UtxoTotal(u) \in Nat /\ UtxoTotal(ApplyTx(tx, n, TRUE, u)) \in Nat /\ OutTotal(tx) \in Nat
  BY <1>4, <1>7, AmountsType, OutTotalType DEF Hist, LeftUnspent
<1>12. UtxoTotal(ApplyTx(tx, n, TRUE, u)) = UtxoTotal(u) + OutTotal(tx)
  <2>1. PICK a \in Nat, b \in Nat, o \in Nat :
           /\ a = UtxoTotal(u) /\ b = UtxoTotal(ApplyTx(tx, n, TRUE, u)) /\ o = OutTotal(tx)
    BY <1>11
  <2>2. b + 0 = a + o
    BY <1>9, <1>10, <2>1
  <2>3. b = a + o
    BY <2>2, FeeArithmetic
  <2> QED BY <2>1, <2>3
<1> QED BY <1>7, <1>11, <1>12 DEF CoinbaseKept

\* The invariant in the middle of a block at height n, whose first m + 1
\* transactions the loop has gone through: fees are what the map has lost.
MidBlock(c, n, u, m, acc) ==
    acc.ok => /\ Hist(At(c, DoneTo(c, n, m + 1)), acc.utxos)
              /\ acc.fees \in Nat
              /\ UtxoTotal(acc.utxos) + acc.fees = UtxoTotal(u)

LEMMA SpendKeepsMidBlock ==
  ASSUME NEW c, NEW n \in Nat, NEW u, NEW m \in Nat, NEW acc, SpendAcc(acc),
         MidBlock(c, n, u, m, acc), BLOCK[c[n + 1]].txs[m + 2] \in Txs
  PROVE  MidBlock(c, n, u, m + 1, SpendStep(acc, BLOCK[c[n + 1]].txs[m + 2], n))
<1>1. PICK tx \in Txs : tx = BLOCK[c[n + 1]].txs[m + 2]
  OBVIOUS
<1>2. PICK nu, nf : nu = ApplyTx(tx, n, FALSE, acc.utxos) /\ nf = acc.fees + Fee(tx, acc.utxos)
  OBVIOUS
<1>3. CASE /\ acc.ok /\ ~IsCoinbase(tx) /\ TxOk(tx, n, acc.utxos)
           /\ acc.fees + Fee(tx, acc.utxos) <= MAX_U64
  <2>1. SpendStep(acc, tx, n) = [ok |-> TRUE, utxos |-> nu, fees |-> nf]
    BY <1>2, <1>3 DEF SpendStep
  <2>2. PICK q, A, B : q = <<n + 1, m + 2>> /\ A = DoneTo(c, n, m + 1) /\ B = DoneTo(c, n, m + 2)
    OBVIOUS
  <2>3. B = A \cup {q} /\ q \notin A
    <3>1. m + 2 \notin 2..(m + 1)
      OBVIOUS
    <3>2. PICK k : k = m + 2
      OBVIOUS
    <3>3. <<n + 1, k>> \in DoneTo(c, n, m + 1) => k \in 2..(m + 1)
      BY ONLY n \in Nat, DoneFacts
    <3>4. q \notin A
      BY <2>2, <3>1, <3>2, <3>3
    <3>5. DoneTo(c, n, m + 2) = DoneTo(c, n, m + 1) \cup {<<n + 1, m + 2>>}
      <4>1. 2..(m + 2) = 2..(m + 1) \cup {m + 2}
        OBVIOUS
      <4> QED BY ONLY <4>1 DEF DoneTo
    <3> QED BY <2>2, <3>4, <3>5
  <2>4. q \in Places
    BY <2>2 DEF Places
  <2>5. Extends(At(c, B), At(c, A), q, tx)
    BY <1>1, <2>2, <2>3, <2>4, AtExtends
  <2>6. Hist(At(c, A), acc.utxos) /\ acc.fees \in Nat
        /\ UtxoTotal(acc.utxos) + acc.fees = UtxoTotal(u)
    BY <1>3, <2>2 DEF MidBlock
  <2>7. PICK k, F, G, w : /\ k = m + 2 /\ F = At(c, A) /\ G = At(c, B) /\ w = acc.utxos
    OBVIOUS
  <2>k. k \in Nat /\ k > 1
    BY <2>7
  <2>o. TxOk(tx, n, w) /\ Hist(F, w) /\ Extends(G, F, <<n + 1, k>>, tx)
    BY <1>3, <2>2, <2>5, <2>6, <2>7
  <2>h. /\ Hist(G, ApplyTx(tx, n, FALSE, w))
        /\ UtxoTotal(ApplyTx(tx, n, FALSE, w)) + Fee(tx, w) = UtxoTotal(w)
        /\ UtxoTotal(w) \in Nat /\ UtxoTotal(ApplyTx(tx, n, FALSE, w)) \in Nat
        /\ Fee(tx, w) \in Nat
    BY <2>k, <2>o, SpenderKeepsHist
  <2>8. /\ Hist(At(c, B), nu)
        /\ UtxoTotal(nu) + Fee(tx, acc.utxos) = UtxoTotal(acc.utxos)
        /\ UtxoTotal(acc.utxos) \in Nat /\ UtxoTotal(nu) \in Nat
        /\ Fee(tx, acc.utxos) \in Nat
    BY <1>2, <2>7, <2>h
  <2>9. nf \in Nat /\ UtxoTotal(nu) + nf = UtxoTotal(u)
    <3>1. PICK a \in Nat, b \in Nat, f \in Nat, g \in Nat :
             /\ a = UtxoTotal(acc.utxos) /\ b = UtxoTotal(nu)
             /\ f = acc.fees /\ g = Fee(tx, acc.utxos)
      BY <2>6, <2>8
    <3>2. b + g = a /\ a + f = UtxoTotal(u) /\ nf = f + g
      BY <1>2, <2>6, <2>8, <3>1
    <3>3. f + g \in Nat /\ b + (f + g) = (b + g) + f
      BY ONLY <3>1
    <3> QED BY <3>1, <3>2, <3>3
  <2>10. MidBlock(c, n, u, m + 1, [ok |-> TRUE, utxos |-> nu, fees |-> nf])
    <3>1. (m + 1) + 1 = m + 2
      OBVIOUS
    <3> QED BY <2>2, <2>8, <2>9, <3>1 DEF MidBlock
  <2> QED BY <1>1, <2>1, <2>10
<1>4. CASE ~(/\ acc.ok /\ ~IsCoinbase(tx) /\ TxOk(tx, n, acc.utxos)
             /\ acc.fees + Fee(tx, acc.utxos) <= MAX_U64)
  <2>1. SpendStep(acc, tx, n) = [acc EXCEPT !.ok = FALSE]
    BY <1>4 DEF SpendStep
  <2>2. SpendStep(acc, tx, n) = [ok |-> FALSE, utxos |-> acc.utxos, fees |-> acc.fees]
    BY <2>1 DEF SpendAcc
  <2>3. ~SpendStep(acc, tx, n).ok
    BY <2>2
  <2> QED BY <1>1, <2>3 DEF MidBlock
<1> QED BY <1>3, <1>4

\* After the loop.
LEMMA SpendTxsKeepsHist ==
  ASSUME NEW c, NEW n \in Nat, NEW txs \in Seq(Txs), txs = BLOCK[c[n + 1]].txs, txs # <<>>,
         NEW u, Hist(At(c, Done(c, n)), u), SpendTxs(txs, n, u).ok
  PROVE  MidBlock(c, n, u, Len(txs) - 1, SpendTxs(txs, n, u))
<1>0. PICK len : len = Len(txs)
  OBVIOUS
<1>a. len \in Nat \ {0} /\ DOMAIN txs = 1..len /\ \A i \in 1..len : txs[i] \in Txs
  BY <1>0
<1>b. IsUtxoMap(u) /\ IsFiniteSet(DOMAIN u)
  BY DEF Hist, LeftUnspent
<1>c. UtxoTotal(u) \in Nat
  BY <1>b, AmountsType
<1> DEFINE run == SpendRun(txs, n, u)
           S   == {m \in Nat : m + 1 \in 1..len =>
                      SpendAcc(run[m + 1]) /\ MidBlock(c, n, u, m, run[m + 1])}
<1>d. /\ run[1] = [ok |-> TRUE, utxos |-> u, fees |-> 0]
      /\ \A m \in Nat : m + 2 \in 1..len => run[m + 2] = SpendStep(run[m + 1], txs[m + 2], n)
  <2> DEFINE Base == [ok |-> TRUE, utxos |-> u, fees |-> 0]
  <2>1. run = [i \in 1..len |-> IF i = 1 THEN Base ELSE SpendStep(run[i - 1], txs[i], n)]
    <3>1. Len(txs) \in Nat \ {0}
      BY <1>0, <1>a
    <3>2. run = [i \in 1..Len(txs) |-> IF i = 1 THEN Base ELSE SpendStep(run[i - 1], txs[i], n)]
      BY ONLY <3>1, SpendRunDef
    <3> HIDE DEF Base, run
    <3> QED BY <1>0, <3>2
  <2> HIDE DEF Base, run
  <2>2. run[1] = Base
    <3>1. 1 \in 1..len
      BY <1>a
    <3> QED BY <2>1, <3>1
  <2>3. ASSUME NEW m \in Nat, m + 2 \in 1..len
        PROVE  run[m + 2] = SpendStep(run[m + 1], txs[m + 2], n)
    <3>1. m + 2 # 1 /\ (m + 2) - 1 = m + 1
      OBVIOUS
    <3>2. run[m + 2] = SpendStep(run[(m + 2) - 1], txs[m + 2], n)
      BY <2>1, <2>3, <3>1
    <3> QED BY <3>1, <3>2
  <2> QED BY <2>2, <2>3 DEF Base
<1> HIDE DEF run
<1>1. 0 \in S
  <2>1. SpendAcc(run[1])
    BY <1>b, <1>d, SpendAccIntro
  <2>2. Hist(At(c, DoneTo(c, n, 1)), u)
    BY DoneFacts
  <2>3. MidBlock(c, n, u, 0, run[1])
    <3>1. 0 + 1 = 1
      OBVIOUS
    <3> QED BY <1>c, <1>d, <2>2, <3>1 DEF MidBlock
  <2> QED BY <2>1, <2>3
<1>2. ASSUME NEW m \in Nat, m \in S PROVE m + 1 \in S
  <2> SUFFICES ASSUME m + 2 \in 1..len
               PROVE  SpendAcc(run[m + 2]) /\ MidBlock(c, n, u, m + 1, run[m + 2])
    OBVIOUS
  <2>1. m + 1 \in 1..len
    BY <1>a
  <2>2. SpendAcc(run[m + 1]) /\ MidBlock(c, n, u, m, run[m + 1])
    BY <1>2, <2>1
  <2>3. run[m + 2] = SpendStep(run[m + 1], txs[m + 2], n) /\ txs[m + 2] \in Txs
    BY <1>a, <1>d
  <2>4. SpendAcc(run[m + 2])
    BY <2>2, <2>3, SpendStepType
  <2>5. MidBlock(c, n, u, m + 1, run[m + 2])
    BY <2>2, <2>3, SpendKeepsMidBlock
  <2> QED BY <2>4, <2>5
<1>3. \A m \in Nat : m \in S
  <2> HIDE DEF S
  <2> QED BY <1>1, <1>2, NatSetInduction
<1>4. len - 1 \in S /\ (len - 1) + 1 = len /\ len \in 1..len
  <2> HIDE DEF S
  <2> QED BY <1>a, <1>3
<1>5. MidBlock(c, n, u, len - 1, run[len])
  BY <1>4
<1> QED BY <1>0, <1>5 DEF SpendTxs, run

\* After the coinbase: what the map has gained is at most what was minted.
LEMMA BlockKeepsHist ==
  ASSUME NEW c, NEW n \in Nat, n <= MAX_HEIGHT, NEW txs \in Seq(Txs), txs = BLOCK[c[n + 1]].txs,
         NEW u, Hist(At(c, Done(c, n)), u), ValidateBlockTxs(txs, n, u).ok
  PROVE  /\ Hist(At(c, Done(c, n + 1)), ValidateBlockTxs(txs, n, u).utxos)
         /\ UtxoTotal(ValidateBlockTxs(txs, n, u).utxos)
              <= UtxoTotal(u) + ValidateBlockTxs(txs, n, u).minted
<1>1. BlockShapeOk(txs, n)
  BY DEF ValidateBlockTxs
<1>2. /\ txs # <<>> /\ txs[1] \in Txs /\ IsCoinbase(txs[1]) /\ txs[1].data = n
  BY <1>1 DEF BlockShapeOk
<1>3. PICK r, v : r = SpendTxs(txs, n, u) /\ v = ValidateBlockTxs(txs, n, u)
  OBVIOUS
<1>4. v = [ok     |-> r.ok /\ CoinbaseOk(txs[1], r.fees, n),
           utxos  |-> ApplyTx(txs[1], n, TRUE, r.utxos),
           minted |-> Minted(txs[1], r.fees)]
  BY <1>1, <1>3 DEF ValidateBlockTxs
<1>5. r.ok /\ v.utxos = ApplyTx(txs[1], n, TRUE, r.utxos) /\ v.minted = Minted(txs[1], r.fees)
  <2>1. v.ok
    BY <1>3
  <2> QED BY <1>4, <2>1
<1>6. PICK len \in Nat : len = Len(txs) /\ len # 0
  BY <1>2
<1>7. MidBlock(c, n, u, len - 1, r)
  BY <1>2, <1>3, <1>5, <1>6, SpendTxsKeepsHist
<1>8. /\ Hist(At(c, DoneTo(c, n, len)), r.utxos) /\ r.fees \in Nat
      /\ UtxoTotal(r.utxos) + r.fees = UtxoTotal(u)
  <2>1. (len - 1) + 1 = len
    OBVIOUS
  <2> QED BY <1>5, <1>7, <2>1 DEF MidBlock
<1>9. PICK q, A, B : q = <<n + 1, 1>> /\ A = DoneTo(c, n, len) /\ B = Done(c, n + 1)
  OBVIOUS
<1>10. B = A \cup {q} /\ q \notin A /\ q \in Places
  <2>1. 1 \notin 2..len
    OBVIOUS
  <2>2. q \notin A
    BY <1>9, <2>1, DoneFacts
  <2>3. B = A \cup {q}
    BY <1>2, <1>6, <1>9, DoneBlock
  <2> QED BY <1>9, <2>2, <2>3 DEF Places
<1>11. Extends(At(c, B), At(c, A), q, txs[1])
  BY <1>9, <1>10, AtExtends
<1>12. /\ Hist(At(c, B), v.utxos)
       /\ UtxoTotal(v.utxos) = UtxoTotal(r.utxos) + OutTotal(txs[1])
       /\ UtxoTotal(r.utxos) \in Nat
  <2>1. PICK F, G, w, tx : F = At(c, A) /\ G = At(c, B) /\ w = r.utxos /\ tx = txs[1]
    OBVIOUS
  <2>2. /\ Hist(F, w) /\ Extends(G, F, q, tx) /\ q = CoinbasePlace(n)
        /\ tx \in Txs /\ IsCoinbase(tx) /\ tx.data = n
    BY <1>2, <1>8, <1>9, <1>11, <2>1 DEF CoinbasePlace
  <2>3. /\ Hist(G, ApplyTx(tx, n, TRUE, w))
        /\ UtxoTotal(ApplyTx(tx, n, TRUE, w)) = UtxoTotal(w) + OutTotal(tx)
        /\ UtxoTotal(w) \in Nat
    <3>1. Hist(F, w) /\ n \in Nat /\ tx \in Txs
      BY <2>2
    <3>2. q = CoinbasePlace(n) /\ Extends(G, F, q, tx) /\ IsCoinbase(tx) /\ tx.data = n
      BY <2>2
    <3>3. CoinbaseKept(G, w, n, tx)
      BY ONLY <3>1, <3>2, CoinbaseKeepsHist
    <3> QED BY <3>3 DEF CoinbaseKept
  <2> QED BY <1>5, <2>1, <2>3
<1>13. OutTotal(txs[1]) \in Nat
  BY <1>2, OutTotalType
<1>14. UtxoTotal(v.utxos) <= UtxoTotal(u) + v.minted
  <2>1. PICK a \in Nat, f \in Nat, o \in Nat :
           a = UtxoTotal(r.utxos) /\ f = r.fees /\ o = OutTotal(txs[1])
    BY <1>8, <1>12, <1>13
  <2>2. v.minted = IF o >= f THEN o - f ELSE 0
    BY <1>5, <2>1 DEF Minted
  <2>3. a + o <= (a + f) + (IF o >= f THEN o - f ELSE 0)
    BY ONLY <2>1
  <2>4. UtxoTotal(v.utxos) = a + o /\ UtxoTotal(u) = a + f
    BY <1>8, <1>12, <2>1
  <2> QED BY <2>2, <2>3, <2>4
<1> QED BY <1>3, <1>9, <1>12, <1>14

-----------------------------------------------------------------------------
(***************************************************************************)
(* A chain, and the state.                                                 *)
(***************************************************************************)
\* The invariant of a replay after n blocks: the history of the map, and no
\* value in it that was not minted.
Replayed(c, n, acc) ==
    acc.ok => Hist(At(c, Done(c, n)), acc.utxos) /\ UtxoTotal(acc.utxos) <= acc.supply

LEMMA NothingApplied ==
  ASSUME NEW c
  PROVE  Hist(At(c, Done(c, 0)), EmptyUtxos) /\ UtxoTotal(EmptyUtxos) = 0
<1>1. Done(c, 0) = {}
  BY DEF Done
<1>2. PICK F, u : F = At(c, Done(c, 0)) /\ u = EmptyUtxos
  OBVIOUS
<1>3. DOMAIN F = {} /\ DOMAIN u = {}
  BY <1>1, <1>2 DEF At, EmptyUtxos
<1>4. Outs(F) = {} /\ Ins(F) = {}
  BY <1>3 DEF Outs, Ins
<1>5. IsUtxoMap(u) /\ IsFiniteSet(DOMAIN u)
  BY <1>2, <1>3, FS_EmptySet DEF IsUtxoMap, EmptyUtxos
<1>6. Hist(F, u)
  BY <1>3, <1>4, <1>5 DEF Hist, PlacesOk, LeftUnspent, LocksKept
<1>7. UtxoTotal(u) = 0
  <2>1. PICK a : a = AmountsOf(u)
    OBVIOUS
  <2>2. DOMAIN a = {}
    BY <1>3, <2>1 DEF AmountsOf
  <2>3. SumFunction(a) = 0
    BY <2>2, SumEmpty
  <2> QED BY <1>5, <2>1, <2>3, AmountsType
<1> QED BY <1>2, <1>6, <1>7

LEMMA ReplayKeepsHist ==
  ASSUME NEW c \in Seq(Blocks), Len(c) \in 1..(MAX_HEIGHT + 1)
  PROVE  Replayed(c, Len(c), ApplyChain(c))
<1>0. PICK len \in Nat : len = Len(c)
  OBVIOUS
<1>a. len <= MAX_HEIGHT + 1 /\ MAX_HEIGHT \in Nat /\ \A i \in 1..len : c[i] \in Blocks
  BY <1>0, LedgerAssumption
<1> DEFINE run == ReplayRun(c)
           S   == {n \in Nat : n \in 0..len => ReplayAcc(run[n], n) /\ Replayed(c, n, run[n])}
<1>b. /\ run[0] = [ok |-> TRUE, utxos |-> EmptyUtxos, supply |-> 0]
      /\ \A n \in Nat : n + 1 \in 1..len => run[n + 1] = ReplayStep(run[n], c[n + 1], n)
  <2>1. /\ run[0] = [ok |-> TRUE, utxos |-> EmptyUtxos, supply |-> 0]
        /\ \A i \in 1..len : run[i] = ReplayStep(run[i - 1], c[i], i - 1)
    BY <1>0, ReplayFirst
  <2> HIDE DEF run
  <2>2. \A n \in Nat : (n + 1) - 1 = n
    OBVIOUS
  <2> QED BY <2>1, <2>2
<1> HIDE DEF run
<1>1. 0 \in S
  <2>1. IsUtxoMap(EmptyUtxos)
    BY DEF IsUtxoMap, EmptyUtxos
  <2>2. ReplayAcc(run[0], 0)
    BY <1>b, <2>1, LedgerAssumption DEF ReplayAcc
  <2>3. Replayed(c, 0, run[0])
    BY <1>b, NothingApplied DEF Replayed
  <2> QED BY <2>2, <2>3
<1>2. ASSUME NEW n \in Nat, n \in S PROVE n + 1 \in S
  <2> SUFFICES ASSUME n + 1 \in 0..len
               PROVE  ReplayAcc(run[n + 1], n + 1) /\ Replayed(c, n + 1, run[n + 1])
    OBVIOUS
  <2>1. n \in 0..len /\ n + 1 \in 1..len /\ n \in 0..MAX_HEIGHT
    BY <1>a
  <2>2. PICK acc, b : acc = run[n] /\ b = c[n + 1]
    OBVIOUS
  <2>3. ReplayAcc(acc, n) /\ Replayed(c, n, acc) /\ b \in Blocks
    BY <1>2, <1>a, <2>1, <2>2
  <2>4. run[n + 1] = ReplayStep(acc, b, n)
    BY <1>b, <2>1, <2>2
  <2>5. ReplayAcc(run[n + 1], n + 1)
    BY <2>1, <2>3, <2>4, ReplayStepAcc
  <2>6. PICK txs, r : txs = BLOCK[b].txs /\ r = ValidateBlockTxs(txs, n, acc.utxos)
    OBVIOUS
  <2>7. CASE acc.ok /\ r.ok /\ acc.supply + r.minted <= MAX_U64
    <3>1. ReplayStep(acc, b, n) = [ok |-> TRUE, utxos |-> r.utxos, supply |-> acc.supply + r.minted]
      BY <2>6, <2>7 DEF ReplayStep
    <3>2. txs \in Seq(Txs) /\ txs = BLOCK[c[n + 1]].txs /\ n <= MAX_HEIGHT
      BY <2>1, <2>2, <2>3, <2>6, BlocksAssumption
    <3>3. Hist(At(c, Done(c, n)), acc.utxos) /\ UtxoTotal(acc.utxos) <= acc.supply
      BY <2>3, <2>7 DEF Replayed
    <3>4. PICK u : u = acc.utxos
      OBVIOUS
    <3>5. ValidateBlockTxs(txs, n, u).ok /\ Hist(At(c, Done(c, n)), u)
      BY <2>6, <2>7, <3>3, <3>4
    <3>6. /\ Hist(At(c, Done(c, n + 1)), ValidateBlockTxs(txs, n, u).utxos)
          /\ UtxoTotal(ValidateBlockTxs(txs, n, u).utxos)
               <= UtxoTotal(u) + ValidateBlockTxs(txs, n, u).minted
      BY <3>2, <3>5, BlockKeepsHist
    <3>7. Hist(At(c, Done(c, n + 1)), r.utxos) /\ UtxoTotal(r.utxos) <= UtxoTotal(u) + r.minted
      BY <2>6, <3>4, <3>6
    <3>8. UtxoTotal(r.utxos) <= acc.supply + r.minted
      <4>1. IsUtxoMap(u) /\ n \in 0..MAX_HEIGHT /\ acc.supply \in Nat
        BY <2>1, <2>3, <3>4 DEF ReplayAcc
      <4>2. r.minted \in Nat
        BY <2>6, <3>2, <3>4, <4>1, ValidateBlockTxsType
      <4>3. UtxoTotal(u) \in Nat /\ UtxoTotal(r.utxos) \in Nat
        BY <3>5, <3>7, AmountsType DEF Hist, LeftUnspent
      <4> QED BY <3>3, <3>4, <3>7, <4>1, <4>2, <4>3
    <3> QED BY <2>4, <2>5, <3>1, <3>7, <3>8 DEF Replayed
  <2>8. CASE ~(acc.ok /\ r.ok /\ acc.supply + r.minted <= MAX_U64)
    <3>1. ReplayStep(acc, b, n) = [acc EXCEPT !.ok = FALSE]
      BY <2>6, <2>8 DEF ReplayStep
    <3>2. ReplayStep(acc, b, n) = [ok |-> FALSE, utxos |-> acc.utxos, supply |-> acc.supply]
      BY <2>3, <3>1 DEF ReplayAcc
    <3>3. ~ReplayStep(acc, b, n).ok
      BY <3>2
    <3> QED BY <2>4, <2>5, <3>3 DEF Replayed
  <2> QED BY <2>7, <2>8
<1>3. \A n \in Nat : n \in S
  <2> HIDE DEF S
  <2> QED BY <1>1, <1>2, NatSetInduction
<1>4. len \in 0..len
  BY <1>0
<1>5. Replayed(c, len, run[len])
  BY <1>3, <1>4
<1> QED BY <1>0, <1>5 DEF ApplyChain, run

\* What the history of the active chain says of the state.
LEMMA ActiveHist ==
  ASSUME ChainInv
  PROVE  UtxosAreTheUnspent /\ SpendsRespectLocks
<1>1. /\ active \in Seq(Blocks) /\ Len(active) \in 1..(MAX_HEIGHT + 1)
      /\ ApplyChain(active) = [ok |-> TRUE, utxos |-> utxos, supply |-> supply]
  BY DEF ChainInv, TypeOK, LedgerIsReplay
<1>2. PICK F : F = At(active, Done(active, Len(active)))
  OBVIOUS
<1>3. Hist(F, utxos) /\ UtxoTotal(utxos) <= supply
  <2>1. Replayed(active, Len(active), ApplyChain(active))
    BY <1>1, ReplayKeepsHist
  <2> QED BY <1>1, <1>2, <2>1 DEF Replayed
<1>4. Done(active, Len(active)) = ActiveTxs
  <2>1. DOMAIN active = 1..Len(active)
    BY <1>1
  <2> QED BY <2>1 DEF Done, ActiveTxs
<1>5. DOMAIN F = ActiveTxs /\ \A p \in ActiveTxs : F[p] = ActiveTx(p)
  BY <1>2, <1>4 DEF At, ActiveTx
<1>6. UtxosAreTheUnspent
  <2>1. Outs(F) = UNION {Created(ActiveTx(p)) : p \in ActiveTxs}
    <3>1. {Created(F[p]) : p \in DOMAIN F} = {Created(ActiveTx(p)) : p \in ActiveTxs}
      BY <1>5
    <3> QED BY <3>1 DEF Outs
  <2>2. Ins(F) = UNION {Spent(ActiveTx(p)) : p \in ActiveTxs}
    <3>1. {Spent(F[p]) : p \in DOMAIN F} = {Spent(ActiveTx(p)) : p \in ActiveTxs}
      BY <1>5
    <3> QED BY <3>1 DEF Ins
  <2>3. DOMAIN utxos = Outs(F) \ Ins(F)
    BY <1>3 DEF Hist, LeftUnspent
  <2>4. \A p, q \in ActiveTxs : p # q => Spent(ActiveTx(p)) \cap Spent(ActiveTx(q)) = {}
    BY <1>3, <1>5 DEF Hist, LeftUnspent
  <2> QED BY <1>3, <2>1, <2>2, <2>3, <2>4 DEF UtxosAreTheUnspent
<1>7. SpendsRespectLocks
  <2> SUFFICES ASSUME NEW p \in ActiveTxs, NEW q \in ActiveTxs,
                      NEW i \in DOMAIN ActiveTx(q).inputs,
                      ActiveTx(q).inputs[i] \in Created(ActiveTx(p))
               PROVE  LET o == ActiveTx(p).outputs[ActiveTx(q).inputs[i][2]]
                      IN  /\ p[2] = 1 => q[1] >= p[1] + COINBASE_MATURITY
                          /\ q[1] - 1 >= o.lock.height
                          /\ ActiveTx(q).witnesses[i].pubkey = o.lock.pkh
    BY DEF SpendsRespectLocks
  <2>1. /\ p \in DOMAIN F /\ q \in DOMAIN F /\ F[p] = ActiveTx(p) /\ F[q] = ActiveTx(q)
        /\ i \in DOMAIN F[q].inputs
    BY <1>5
  <2>2. LockKept(F, p, q, i)
    BY <1>3, <2>1 DEF Hist, LocksKept
  <2> QED BY <2>1, <2>2 DEF LockKept
<1> QED BY <1>6, <1>7

-----------------------------------------------------------------------------
(***************************************************************************)
(* Rejections.                                                             *)
(***************************************************************************)
\* A parent-linked path from genesis is the path of its last block.
LEMMA PathIsTreePath ==
  ASSUME NEW c \in Seq(Blocks), Len(c) \in Nat \ {0}, c[1] = Genesis,
         \A i \in 1..Len(c) : i > 1 => BLOCK[c[i]].prev = c[i - 1]
  PROVE  TreePath[c[Len(c)]] = c
<1>0. PICK len \in Nat : len = Len(c) /\ len # 0
  OBVIOUS
<1>a. \A i \in 1..len : c[i] \in Blocks
  BY <1>0
<1> DEFINE Cut(n) == [i \in 1..n |-> c[i]]
           S == {n \in Nat : n + 1 \in 1..len => TreePath[c[n + 1]] = Cut(n + 1)}
<1>1. 0 \in S
  <2>1. c[1] \in Blocks /\ BLOCK[c[1]].prev \notin Blocks
    BY <1>0, <1>a, BlocksAssumption
  <2>2. TreePath[c[1]] = <<c[1]>>
    BY <2>1, TreePathAssumption
  <2>3. Cut(1) = <<c[1]>>
    OBVIOUS
  <2> QED BY <2>2, <2>3
<1>2. ASSUME NEW n \in Nat, n \in S PROVE n + 1 \in S
  <2> SUFFICES ASSUME n + 2 \in 1..len PROVE TreePath[c[n + 2]] = Cut(n + 2)
    OBVIOUS
  <2>1. n + 1 \in 1..len /\ n + 2 > 1 /\ (n + 2) - 1 = n + 1
    BY <1>0
  <2>2. TreePath[c[n + 1]] = Cut(n + 1)
    BY <1>2, <2>1
  <2>3. PICK x, y : x = c[n + 1] /\ y = c[n + 2]
    OBVIOUS
  <2>4. x \in Blocks /\ y \in Blocks /\ BLOCK[y].prev = x
    BY <1>0, <1>a, <2>1, <2>3
  <2>5. TreePath[y] = Append(TreePath[x], y)
    BY <2>4, TreePathAssumption
  <2>6. Append(Cut(n + 1), y) = Cut(n + 2)
    <3>1. Cut(n + 1) \in [1..(n + 1) -> Blocks]
      BY <1>0, <1>a, <2>1
    <3>2. PICK s : s = Cut(n + 1)
      OBVIOUS
    <3>3. s \in Seq(Blocks) /\ Len(s) = n + 1
      BY <3>1, <3>2
    <3>4. PICK w : w = Append(s, y)
      OBVIOUS
    <3>5. /\ w \in Seq(Blocks) /\ Len(w) = (n + 1) + 1 /\ w[(n + 1) + 1] = y
          /\ \A i \in 1..(n + 1) : w[i] = s[i]
      BY <2>4, <3>3, <3>4
    <3>6. (n + 1) + 1 = n + 2
      OBVIOUS
    <3>7. w = [i \in 1..(n + 2) |-> w[i]]
      BY <3>5, <3>6
    <3>8. \A i \in 1..(n + 2) : w[i] = c[i]
      <4>1. \A i \in 1..(n + 2) : i = n + 2 \/ i \in 1..(n + 1)
        OBVIOUS
      <4>2. \A i \in 1..(n + 1) : s[i] = c[i]
        BY <3>2
      <4> QED BY <2>3, <3>5, <3>6, <4>1, <4>2
    <3> QED BY <3>2, <3>4, <3>7, <3>8
  <2> QED BY <2>2, <2>3, <2>5, <2>6
<1>3. \A n \in Nat : n \in S
  <2> HIDE DEF S
  <2> QED BY <1>1, <1>2, NatSetInduction
<1>4. len - 1 \in S /\ (len - 1) + 1 = len /\ len \in 1..len
  <2> HIDE DEF S
  <2> QED BY <1>0, <1>3
<1>5. TreePath[c[len]] = Cut(len)
  BY <1>4
<1>6. Cut(len) = c
  BY <1>0
<1> QED BY <1>0, <1>5, <1>6

\* The header checks read the metadata and nothing else of the state.
MedianAt(m, from) ==
    LET path == Walk(m, from)
    IN  MedianOf([i \in DOMAIN path |-> m[path[i]].time])

HeaderAt(m, b, body) ==
    /\ BLOCK[b].bits = NEXT_BITS(m[BLOCK[b].prev].time - m[Genesis].time, m[BLOCK[b].prev].height)
    /\ BLOCK[b].time > MedianAt(m, BLOCK[b].prev)
    /\ BLOCK[b].size <= MAX_BLOCK_SIZE /\ body /\ BLOCK[b].pow

LEMMA HeaderOfMeta ==
  /\ \A b, body : HeaderOk(b, body) <=> HeaderAt(meta, b, body)
  /\ HeaderOk(ret.block, ret.body)' <=> HeaderAt(meta', ret'.block, ret'.body)
BY DEF HeaderOk, HeaderAt, ExpectedBits, MedianTimePast, MedianAt

\* A block that fails on the fast path does not replay on its branch either.
LEMMA ExtendTipRejects ==
  ASSUME ChainInv, NEW b \in Blocks, NEW body \in BOOLEAN, ExtendTip(b, body),
         ret'.res = "invalid"
  PROVE  ~ApplyChain(TreePath[b]).ok
<1>0. Inserts(b, body) /\ BLOCK[b].prev = Tip
  BY DEF ExtendTip, OnTip
<1>1. PICK n \in Nat \ {0} : n = Len(active)
  BY DEF ChainInv, TypeOK
<1>2. active \in Seq(Blocks) /\ \A i \in 1..n : i > 1 => BLOCK[active[i]].prev = active[i - 1]
  BY <1>1 DEF ChainInv, TypeOK, ActiveIsPath
<1>3. active[1] = Genesis /\ Tip \in Blocks /\ Tip = active[n] /\ meta[Tip].height = n - 1
  BY <1>1, <1>2 DEF ChainInv, ActiveIsPath, Tip
<1>4. ~ValidateOnTip(b).ok
  <2> SUFFICES ASSUME ValidateOnTip(b).ok PROVE FALSE
    OBVIOUS
  <2>1. Returns(b, body, "overflow") \/ Returns(b, body, "active")
    BY DEF ExtendTip
  <2> QED BY <2>1 DEF Returns
<1>5. NewMeta(b).height = n
  BY <1>0, <1>3 DEF NewMeta
<1>6. ~ValidateBlockTxs(BLOCK[b].txs, n, utxos).ok
  BY <1>4, <1>5 DEF ValidateOnTip
<1>7. TreePath[b] = Append(active, b)
  <2>1. TreePath[active[Len(active)]] = active
    BY <1>1, <1>2, <1>3, PathIsTreePath
  <2>2. TreePath[b] = Append(TreePath[Tip], b)
    BY <1>0, <1>3, TreePathAssumption
  <2> QED BY <1>1, <1>3, <2>1, <2>2
<1>8. PICK acc : acc = ApplyChain(active)
  OBVIOUS
<1>9. acc = [ok |-> TRUE, utxos |-> utxos, supply |-> supply]
  BY <1>8 DEF ChainInv, LedgerIsReplay
<1>10. ApplyChain(Append(active, b)) = ReplayStep(acc, b, n)
  BY <1>1, <1>2, <1>8, ReplayAppend
<1>11. ReplayStep(acc, b, n) = [acc EXCEPT !.ok = FALSE]
  <2>1. acc.utxos = utxos
    BY <1>9
  <2> QED BY <1>6, <2>1 DEF ReplayStep
<1>12. ~ReplayStep(acc, b, n).ok
  <2>1. /\ ReplayStep(acc, b, n) = [acc EXCEPT !.ok = FALSE]
        /\ acc = [ok |-> acc.ok, utxos |-> acc.utxos, supply |-> acc.supply]
    BY <1>9, <1>11
  <2>2. ReplayStep(acc, b, n) = [ok |-> FALSE, utxos |-> acc.utxos, supply |-> acc.supply]
    BY <2>1
  <2> QED BY <2>2
<1> QED BY <1>7, <1>10, <1>12

\* A block that fails a reorganisation does not replay on its branch: the
\* branch that was tried is its path.
LEMMA ReorgRejects ==
  ASSUME ChainInv, NEW b \in Blocks, NEW body \in BOOLEAN, Reorg(b, body),
         ret'.res = "invalid"
  PROVE  ~ApplyChain(TreePath[b]).ok
<1>1. PICK m, s, c : m = InsertMeta(b) /\ s = all \cup {b} /\ c = Walk(m, b)
  OBVIOUS
<1>2. Inserts(b, body)
  BY DEF Reorg
<1>3. IsTree(m, s) /\ (\A x \in s : m[x] \in Metas) /\ b \in s /\ s \subseteq Blocks
  BY <1>1, <1>2, InsertKeepsTree DEF ChainInv, TypeOK
<1>4. \A x \in s : m[x].height \in Nat
  BY <1>3, LedgerAssumption DEF Metas
<1>5. /\ c \in Seq(s) /\ Len(c) = m[b].height + 1 /\ c[Len(c)] = b /\ c[1] = Genesis
      /\ \A i \in 1..Len(c) : i > 1 => BLOCK[c[i]].prev = c[i - 1]
  <2>1. /\ Walk(m, b) \in Seq(s) /\ Len(Walk(m, b)) = m[b].height + 1
        /\ Walk(m, b)[Len(Walk(m, b))] = b /\ Walk(m, b)[1] = Genesis
        /\ \A i \in 1..Len(Walk(m, b)) : i > 1 => BLOCK[Walk(m, b)[i]].prev = Walk(m, b)[i - 1]
    BY <1>3, <1>4, WalkIsPath
  <2> QED BY <1>1, <2>1
<1>6. c \in Seq(Blocks) /\ Len(c) \in Nat \ {0}
  BY <1>3, <1>4, <1>5
<1>7. TreePath[b] = c
  BY <1>5, <1>6, PathIsTreePath
<1>8. ~ApplyChain(c).ok
  <2> SUFFICES ASSUME ApplyChain(c).ok PROVE FALSE
    OBVIOUS
  <2>1. Returns(b, body, "active")
    BY <1>1 DEF Reorg
  <2> QED BY <2>1 DEF Returns
<1> QED BY <1>7, <1>8

-----------------------------------------------------------------------------
(***************************************************************************)
(* Theorems.                                                               *)
(***************************************************************************)
\* In every reachable chain state the UTXO map holds exactly the outputs that
\* the active chain created and did not spend, none was spent twice, and their
\* value is covered by the recorded supply.
THEOREM UnspentExact == Spec => []UtxosAreTheUnspent
<1>1. ChainInv => UtxosAreTheUnspent
  BY ActiveHist
<1> QED BY <1>1, ChainInvariant, PTL

\* In every reachable chain state, every spend on the active chain came after
\* the maturity and the timelock of the output, under its owner's key.
THEOREM LocksRespected == Spec => []SpendsRespectLocks
<1>1. ChainInv => SpendsRespectLocks
  BY ActiveHist
<1> QED BY <1>1, ChainInvariant, PTL

\* Whatever add_block answered last: if it was a rejection, the header was bad
\* or the block's branch does not replay from genesis.  A failed fast path and
\* a failed reorganisation are both the fault of the block or its ancestors.
THEOREM RejectionsDeserved == Spec => []RejectedOnlyIfInvalid
<1>1. Init => RejectedOnlyIfInvalid
  BY DEF Init, RejectedOnlyIfInvalid
<1>2. ChainInv /\ RejectedOnlyIfInvalid /\ [Next]_chainVars => RejectedOnlyIfInvalid'
  <2> SUFFICES ASSUME ChainInv, RejectedOnlyIfInvalid, [Next]_chainVars, ret'.res = "invalid",
                      HeaderOk(ret.block, ret.body)'
               PROVE  ~ApplyChain(TreePath[ret'.block]).ok
    BY DEF RejectedOnlyIfInvalid
  <2>1. ASSUME NEW b \in Blocks, NEW body \in BOOLEAN, RejectHeader(b, body)
        PROVE  FALSE
    <3>1. ~HeaderOk(b, body) /\ meta' = meta /\ ret'.block = b /\ ret'.body = body
      BY <2>1 DEF RejectHeader, Returns
    <3>2. HeaderOk(b, body)
      BY <3>1, HeaderOfMeta
    <3> QED BY <3>1, <3>2
  <2>2. ASSUME NEW b \in Blocks, NEW body \in BOOLEAN, ExtendTip(b, body)
        PROVE  ~ApplyChain(TreePath[ret'.block]).ok
    <3>1. ret'.block = b
      BY <2>2 DEF ExtendTip, Returns
    <3> QED BY <2>2, <3>1, ExtendTipRejects
  <2>3. ASSUME NEW b \in Blocks, NEW body \in BOOLEAN, Reorg(b, body)
        PROVE  ~ApplyChain(TreePath[ret'.block]).ok
    <3>1. ret'.block = b
      BY <2>3 DEF Reorg, Returns
    <3> QED BY <2>3, <3>1, ReorgRejects
  <2>4. ASSUME NEW b \in Blocks, NEW body \in BOOLEAN,
               \/ RejectDuplicate(b, body) \/ RejectUnknownParent(b, body)
               \/ KeepSideBlock(b, body)
        PROVE  FALSE
    BY <2>4 DEF RejectDuplicate, RejectUnknownParent, KeepSideBlock, Returns
  <2>5. CASE UNCHANGED chainVars
    <3>1. ret' = ret /\ meta' = meta
      BY <2>5 DEF chainVars
    <3>2. HeaderOk(ret.block, ret.body)
      BY <3>1, HeaderOfMeta
    <3> QED BY <3>1, <3>2 DEF RejectedOnlyIfInvalid
  <2> QED BY <2>1, <2>2, <2>3, <2>4, <2>5 DEF Next, AddBlock
<1> QED BY <1>1, <1>2, ChainInvariant, PTL DEF Spec
=============================================================================
