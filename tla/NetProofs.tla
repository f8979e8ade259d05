----------------------------- MODULE NetProofs ------------------------------
(***************************************************************************)
(* Synchronisation and relay for any network, block tree, locators and     *)
(* batch size.  The theorems say that nothing gets lost between two        *)
(* handlers: a request of one side or an offer of the other is either      *)
(* answered already or in one of the two queues of the link.  That the     *)
(* answer comes rests on what a node may be asked for: only blocks it has, *)
(* because it announced them on this connection and a restart ends that.   *)
(* The last one adds that a node which has less work than its peer is      *)
(* about to learn of it, wherever one round of synchronisation is enough.  *)
(***************************************************************************)
EXTENDS TxRelay, SumProofs

\* The messages of honest nodes.
Messages ==
    [type : {"Hello"}, height : Int, tip : Blocks]
      \cup [type : {"GetBlocks"}, locator : {Locator(b) : b \in Blocks}]
      \cup [type : {"Inv", "GetData"}, blocks : Seq(Blocks)]
      \cup [type : {"Block"}, block : Blocks]
      \cup [type : {"InvTx", "GetTx", "Tx"}, tx : Txs]

\* What is queued or on the wire from p[1] to p[2].
In(p) == Range(chan[p])

NetTypes ==
    /\ setup \in Setups /\ links \subseteq Topology
    /\ known \in [Nodes -> SUBSET Blocks]
    /\ tip \in [Nodes -> Blocks] /\ saved \in [Nodes -> Blocks]
    /\ chan \in [Pairs -> Seq(Messages)]
    /\ requested \in [Pairs -> SUBSET Blocks]

\* A node knows its tip, and with a block all its ancestors.
KnownClosed ==
    \A n \in Nodes : /\ tip[n] \in known[n]
                     /\ \A b \in known[n] : Range(PathTo[b]) \subseteq known[n]

\* Nothing is left of a connection that ended.
LinksOnly ==
    \A p \in Pairs : {p[1], p[2]} \notin links => chan[p] = <<>> /\ requested[p] = {}

\* A node is asked only for blocks it has, since it announces no others, and
\* can always tell where a locator forks from its own chain.
Sound(x, p, have) ==
    /\ x.type = "Inv" => Range(x.blocks) \subseteq have[p[1]]
    /\ x.type = "GetData" => Range(x.blocks) \subseteq have[p[2]]
    /\ x.type = "GetBlocks" => Genesis \in x.locator

MessagesSound == \A p \in Pairs : \A x \in In(p) : Sound(x, p, known)

\* Block b, which p[1] has asked p[2] for, is in one of the two queues.
Wait(p, b) ==
    \/ \E x \in In(p) : x.type = "GetData" /\ b \in Range(x.blocks)
    \/ Block(b) \in In(<<p[2], p[1]>>)

RequestsWait == \A p \in Pairs : \A b \in requested[p] : Wait(p, b)

SyncInv == NetTypes /\ KnownClosed /\ LinksOnly /\ MessagesSound /\ RequestsWait

\* What was offered is held by an end of the link.
OfferHeld ==
    \A l \in Topology : \A t \in offered[l] : l \in links /\ \E n \in l : t \in pool[n]

\* A transaction that p[1] offered to p[2] is on its way in one of the three
\* messages that bring it, or p[2] has it or a rival of it.
Settled(p, t) ==
    \/ InvTx(t) \in In(p) \/ GetTx(t) \in In(<<p[2], p[1]>>) \/ Tx(t) \in In(p)
    \/ ({t} \cup Rivals(t)) \cap pool[p[2]] # {}

OffersSettle ==
    \A p \in Pairs : \A t \in offered[{p[1], p[2]}] \cap pool[p[1]] : Settled(p, t)

RelayInv ==
    /\ pool \in [Nodes -> SUBSET Txs] /\ offered \in [Topology -> SUBSET Txs]
    /\ OfferHeld /\ OffersSettle

-----------------------------------------------------------------------------
(***************************************************************************)
(* Lists.                                                                  *)
(***************************************************************************)
\* The iteration of `filter` ends.
LEMMA FilterDef ==
  ASSUME NEW S, NEW s \in Seq(S), NEW K
  PROVE  \E f : /\ f = [i \in 0..Len(s) |->
                          IF i = 0 THEN <<>>
                          ELSE IF s[i] \in K THEN Append(f[i - 1], s[i]) ELSE f[i - 1]]
                /\ Filter(s, K) = f[Len(s)]
<1> DEFINE Next1(g, i) == IF s[i] \in K THEN Append(g, s[i]) ELSE g
           Fits(g, n) == g = [i \in 0..n |-> IF i = 0 THEN <<>> ELSE Next1(g[i - 1], i)]
           T == {n \in Nat : \E g : Fits(g, n)}
<1> HIDE DEF Next1
<1>1. 0 \in T
  <2>1. Fits([i \in 0..0 |-> <<>>], 0)
    OBVIOUS
  <2> QED BY <2>1
<1>2. ASSUME NEW n \in Nat, n \in T PROVE n + 1 \in T
  <2>1. PICK g : Fits(g, n)
    BY <1>2
  <2> DEFINE h == [i \in 0..(n + 1) |-> IF i = n + 1 THEN Next1(g[n], n + 1) ELSE g[i]]
  <2>2. Fits(h, n + 1)
    BY <2>1
  <2> HIDE DEF h, Fits
  <2> QED BY <2>2
<1>3. \A n \in Nat : n \in T
  <2> HIDE DEF T
  <2> QED BY <1>1, <1>2, NatSetInduction
<1>4. PICK g : Fits(g, Len(s))
  BY <1>3
<1> QED BY <1>4 DEF Filter, Next1

\* It keeps the entries in the set and nothing else.
LEMMA FilterRange ==
  ASSUME NEW S, NEW s \in Seq(S), NEW K
  PROVE  /\ Filter(s, K) \in Seq(S)
         /\ Range(Filter(s, K)) = Range(s) \cap K
<1>1. PICK n \in Nat : n = Len(s)
  OBVIOUS
<1>2. \A i \in 1..n : s[i] \in S
  BY <1>1
<1>3. PICK f : /\ f = [i \in 0..n |->
                        IF i = 0 THEN <<>>
                        ELSE IF s[i] \in K THEN Append(f[i - 1], s[i]) ELSE f[i - 1]]
              /\ Filter(s, K) = f[n]
  BY <1>1, FilterDef
<1> DEFINE T == {i \in Nat : i <= n =>
                    f[i] \in Seq(S) /\ Range(f[i]) = {s[j] : j \in 1..i} \cap K}
<1>4. f[0] = <<>> /\ \A i \in 0..n : i # 0 =>
         f[i] = IF s[i] \in K THEN Append(f[i - 1], s[i]) ELSE f[i - 1]
  <2>1. f[0] = <<>>
    BY ONLY <1>3, n \in Nat
  <2>2. ASSUME NEW i \in 0..n, i # 0
        PROVE  f[i] = IF s[i] \in K THEN Append(f[i - 1], s[i]) ELSE f[i - 1]
    BY ONLY <1>3, <2>2
  <2> QED BY ONLY <2>1, <2>2
<1>5. 0 \in T
  <2>1. <<>> \in Seq(S) /\ Range(<<>>) = {} /\ {s[j] : j \in 1..0} = {}
    BY ONLY TRUE DEF Range
  <2> QED BY <1>4, <2>1
<1>6. ASSUME NEW i \in Nat, i \in T PROVE i + 1 \in T
  <2> SUFFICES ASSUME i + 1 <= n
               PROVE  f[i + 1] \in Seq(S) /\ Range(f[i + 1]) = {s[j] : j \in 1..(i + 1)} \cap K
    OBVIOUS
  <2>1. f[i] \in Seq(S) /\ Range(f[i]) = {s[j] : j \in 1..i} \cap K
    BY <1>6
  <2>2. f[i + 1] = IF s[i + 1] \in K THEN Append(f[i], s[i + 1]) ELSE f[i]
    <3>1. i + 1 \in 0..n /\ i + 1 # 0 /\ (i + 1) - 1 = i
      OBVIOUS
    <3> QED BY <1>4, <3>1
  <2>3. {s[j] : j \in 1..(i + 1)} = {s[j] : j \in 1..i} \cup {s[i + 1]}
    OBVIOUS
  <2>4. s[i + 1] \in S
    BY <1>2
  <2>5. PICK g \in Seq(S), x \in S : g = f[i] /\ x = s[i + 1]
    BY <2>1, <2>4
  <2>6. Append(g, x) \in Seq(S) /\ Range(Append(g, x)) = Range(g) \cup {x}
    BY ONLY g \in Seq(S), x \in S DEF Range
  <2> QED BY <2>1, <2>2, <2>3, <2>5, <2>6
<1>7. \A i \in Nat : i \in T
  <2> HIDE DEF T
  <2> QED BY <1>5, <1>6, NatSetInduction
<1>8. f[n] \in Seq(S) /\ Range(f[n]) = {s[j] : j \in 1..n} \cap K
  <2>1. n \in T /\ n <= n
    <3> HIDE DEF T
    <3> QED BY <1>7
  <2> QED BY <2>1
<1>9. Range(s) = {s[j] : j \in 1..n}
  BY <1>1 DEF Range
<1> QED BY <1>3, <1>8, <1>9
\* What a list of two parts holds.
LEMMA RangeConcat ==
  ASSUME NEW S, NEW s \in Seq(S), NEW t \in Seq(S)
  PROVE  s \o t \in Seq(S) /\ Range(s \o t) = Range(s) \cup Range(t)
<1>1. PICK n \in Nat, m \in Nat : n = Len(s) /\ m = Len(t)
  OBVIOUS
<1>2. /\ s \o t \in Seq(S) /\ Len(s \o t) = n + m
      /\ \A i \in 1..(n + m) : (s \o t)[i] = IF i <= n THEN s[i] ELSE t[i - n]
  BY <1>1
<1>3. PICK u : u = s \o t
  OBVIOUS
<1>4. DOMAIN s = 1..n /\ DOMAIN t = 1..m /\ DOMAIN u = 1..(n + m)
  BY <1>1, <1>2, <1>3
<1>5. \A i \in 1..(n + m) : u[i] = IF i <= n THEN s[i] ELSE t[i - n]
  BY <1>2, <1>3
<1>6. Range(s) \subseteq Range(u)
  <2>1. \A i \in 1..n : i \in 1..(n + m) /\ u[i] = s[i]
    BY ONLY <1>5, n \in Nat, m \in Nat
  <2> QED BY ONLY <2>1, <1>4 DEF Range
<1>7. Range(t) \subseteq Range(u)
  <2>1. \A i \in 1..m : i + n \in 1..(n + m) /\ u[i + n] = t[i]
    BY ONLY <1>5, n \in Nat, m \in Nat
  <2> QED BY ONLY <2>1, <1>4 DEF Range
<1>8. Range(u) \subseteq Range(s) \cup Range(t)
  <2>1. \A i \in 1..(n + m) : IF i <= n THEN i \in 1..n ELSE i - n \in 1..m
    BY ONLY n \in Nat, m \in Nat
  <2> QED BY ONLY <2>1, <1>4, <1>5 DEF Range
<1> QED BY <1>2, <1>3, <1>6, <1>7, <1>8

LEMMA RangeAppend ==
  ASSUME NEW S, NEW s \in Seq(S), NEW x \in S
  PROVE  /\ Len(Append(s, x)) = Len(s) + 1
         /\ Range(Append(s, x)) = Range(s) \cup {x}
         /\ Append(s, x)[1] = IF Len(s) = 0 THEN x ELSE s[1]
<1>1. PICK n \in Nat : n = Len(s)
  OBVIOUS
<1>2. PICK u : u = Append(s, x)
  OBVIOUS
<1>3. /\ DOMAIN s = 1..n /\ DOMAIN u = 1..(n + 1) /\ Len(u) = n + 1
      /\ \A i \in 1..n : u[i] = s[i] /\ u[n + 1] = x
  BY <1>1, <1>2
<1>4. u[n + 1] = x
  BY <1>1, <1>2
<1>5. Range(u) = Range(s) \cup {x}
  <2>1. 1..(n + 1) = 1..n \cup {n + 1}
    BY ONLY n \in Nat
  <2> QED BY ONLY <1>3, <1>4, <2>1 DEF Range
<1>6. u[1] = IF n = 0 THEN x ELSE s[1]
  BY ONLY <1>3, <1>4, n \in Nat
<1> QED BY <1>1, <1>2, <1>3, <1>5, <1>6

\* What is left when the head is taken.
LEMMA RangeTail ==
  ASSUME NEW S, NEW s \in Seq(S), s # <<>>
  PROVE  /\ Tail(s) \in Seq(S) /\ Head(s) \in S /\ Head(s) \in Range(s)
         /\ Range(Tail(s)) \subseteq Range(s)
         /\ \A x \in Range(s) : x = Head(s) \/ x \in Range(Tail(s))
<1>1. PICK n \in Nat : n = Len(s) - 1
  OBVIOUS
<1>2. /\ Tail(s) \in Seq(S) /\ Head(s) \in S /\ Head(s) = s[1]
      /\ Len(Tail(s)) = n /\ \A i \in 1..n : Tail(s)[i] = s[i + 1]
  BY <1>1
<1>3. PICK t : t = Tail(s)
  OBVIOUS
<1>4. DOMAIN s = 1..(n + 1) /\ DOMAIN t = 1..n /\ \A i \in 1..n : t[i] = s[i + 1]
  BY <1>1, <1>2, <1>3
<1>5. Range(t) \subseteq Range(s)
  <2>1. \A i \in 1..n : i + 1 \in 1..(n + 1)
    BY ONLY n \in Nat
  <2> QED BY ONLY <2>1, <1>4 DEF Range
<1>6. \A x \in Range(s) : x = s[1] \/ x \in Range(t)
  <2> SUFFICES ASSUME NEW i \in 1..(n + 1), i # 1 PROVE s[i] \in Range(t)
    BY <1>4 DEF Range
  <2>1. i - 1 \in 1..n /\ (i - 1) + 1 = i
    OBVIOUS
  <2>2. t[i - 1] = s[i]
    BY ONLY <1>4, <2>1
  <2> QED BY ONLY <1>4, <2>1, <2>2 DEF Range
<1>7. s[1] \in Range(s)
  <2>1. 1 \in 1..(n + 1)
    BY ONLY n \in Nat
  <2> QED BY ONLY <2>1, <1>4 DEF Range
<1> QED BY <1>2, <1>3, <1>5, <1>6, <1>7

-----------------------------------------------------------------------------
(***************************************************************************)
(* Queues.                                                                 *)
(***************************************************************************)
\* A link joins two nodes, and has a queue each way.
LEMMA PairFacts ==
  ASSUME NEW p \in Pairs
  PROVE  /\ p = <<p[1], p[2]>> /\ p[1] \in Nodes /\ p[2] \in Nodes /\ p[1] # p[2]
         /\ {p[1], p[2]} \in Topology /\ {p[2], p[1]} = {p[1], p[2]}
         /\ <<p[2], p[1]>> \in Pairs
<1>1. p = <<p[1], p[2]>> /\ p[1] \in Nodes /\ p[2] \in Nodes /\ {p[1], p[2]} \in Topology
  BY DEF Pairs
<1>2. {p[2], p[1]} = {p[1], p[2]}
  OBVIOUS
<1>3. p[1] # p[2]
  <2>1. SUFFICES ASSUME p[1] = p[2] PROVE FALSE
    OBVIOUS
  <2>2. {p[1], p[2]} = {p[1]}
    BY <2>1
  <2>3. Cardinality({p[1]}) = 1
    BY FS_Singleton
  <2>4. Cardinality({p[1], p[2]}) = 2
    BY <1>1, SyncAssumption
  <2>5. 1 = 2
    BY ONLY <2>2, <2>3, <2>4
  <2> QED BY ONLY <2>5
<1>4. <<p[2], p[1]>> \in Pairs
  BY <1>1, <1>2 DEF Pairs
<1> QED BY <1>1, <1>2, <1>3, <1>4

\* A handler takes the head of one queue and appends to others: nothing else
\* gets lost, and nothing else appears.
LEMMA Delivered ==
  ASSUME chan \in [Pairs -> Seq(Messages)], NEW c \in Pairs, chan[c] # <<>>,
         NEW out \in [Pairs -> Seq(Messages)], chan' = Deliver(c, out)
  PROVE  /\ chan' \in [Pairs -> Seq(Messages)]
         /\ Head(chan[c]) \in In(c) /\ Head(chan[c]) \in Messages
         /\ \A p \in Pairs : /\ \A x \in In(p) : p # c \/ x # Head(chan[c]) => x \in In(p)'
                             /\ Range(out[p]) \subseteq In(p)'
                             /\ In(p)' \subseteq In(p) \cup Range(out[p])
<1>1. chan[c] \in Seq(Messages) /\ \A p \in Pairs : chan[p] \in Seq(Messages) /\ out[p] \in Seq(Messages)
  OBVIOUS
<1>2. /\ Tail(chan[c]) \in Seq(Messages) /\ Head(chan[c]) \in Messages
      /\ Head(chan[c]) \in Range(chan[c])
      /\ Range(Tail(chan[c])) \subseteq Range(chan[c])
      /\ \A x \in Range(chan[c]) : x = Head(chan[c]) \/ x \in Range(Tail(chan[c]))
  BY <1>1, RangeTail
<1>3. ASSUME NEW p \in Pairs
      PROVE  /\ chan'[p] \in Seq(Messages)
             /\ \A x \in Range(chan[p]) : p # c \/ x # Head(chan[c]) => x \in Range(chan'[p])
             /\ Range(out[p]) \subseteq Range(chan'[p])
             /\ Range(chan'[p]) \subseteq Range(chan[p]) \cup Range(out[p])
  <2>1. PICK q \in Seq(Messages) : q = IF p = c THEN Tail(chan[p]) ELSE chan[p]
    BY <1>1, <1>2
  <2>2. chan'[p] = q \o out[p]
    BY <2>1 DEF Deliver
  <2>3. q \o out[p] \in Seq(Messages) /\ Range(q \o out[p]) = Range(q) \cup Range(out[p])
    BY <1>1, <2>1, RangeConcat
  <2> QED BY <1>2, <2>1, <2>2, <2>3
<1>4. chan' \in [Pairs -> Seq(Messages)]
  BY <1>3 DEF Deliver
<1> QED BY <1>2, <1>3, <1>4 DEF In
-----------------------------------------------------------------------------
(***************************************************************************)
(* Paths of the tree.                                                      *)
(***************************************************************************)
\* A path starts at genesis and holds the paths of all its blocks.
LEMMA PathFacts ==
  ASSUME NEW b \in Blocks
  PROVE  /\ PathTo[b] \in Seq(Blocks) /\ Len(PathTo[b]) \in Nat \ {0}
         /\ PathTo[b][1] = Genesis /\ b \in Range(PathTo[b])
         /\ \A y \in Range(PathTo[b]) : Range(PathTo[y]) \subseteq Range(PathTo[b])
<1> DEFINE Good(c) == /\ Len(PathTo[c]) \in Nat \ {0}
                      /\ PathTo[c][1] = Genesis /\ c \in Range(PathTo[c])
                      /\ \A y \in Range(PathTo[c]) : Range(PathTo[y]) \subseteq Range(PathTo[c])
           T == {k \in Nat : \A c \in Blocks : Len(PathTo[c]) <= k => Good(c)}
<1>1. \A c \in Blocks : PathTo[c] \in Seq(Blocks) /\ Len(PathTo[c]) \in Nat
  BY PathAssumption
<1>2. ASSUME NEW s \in Seq(Blocks), NEW x \in Blocks
      PROVE  /\ Len(Append(s, x)) = Len(s) + 1
             /\ Range(Append(s, x)) = Range(s) \cup {x}
             /\ Append(s, x)[1] = IF Len(s) = 0 THEN x ELSE s[1]
  BY RangeAppend
<1>3. Good(Genesis)
  <2>1. PathTo[Genesis] = <<Genesis>>
    BY PathAssumption
  <2>2. Range(<<Genesis>>) = {Genesis} /\ Len(<<Genesis>>) = 1 /\ <<Genesis>>[1] = Genesis
    BY DEF Range
  <2> QED BY <2>1, <2>2
<1>4. ASSUME NEW c \in Blocks \ {Genesis}, Good(PREV[c]) PROVE Good(c)
  <2>1. PICK q \in Blocks : q = PREV[c] /\ PathTo[c] = Append(PathTo[q], c)
    BY PathAssumption
  <2>2. /\ Len(PathTo[c]) = Len(PathTo[q]) + 1 /\ Range(PathTo[c]) = Range(PathTo[q]) \cup {c}
        /\ PathTo[c][1] = IF Len(PathTo[q]) = 0 THEN c ELSE PathTo[q][1]
    BY <1>1, <1>2, <2>1
  <2>3. Good(q)
    BY <1>4, <2>1
  <2> QED BY <2>2, <2>3
<1>5. 0 \in T
  <2> SUFFICES ASSUME NEW c \in Blocks, Len(PathTo[c]) <= 0 PROVE FALSE
    BY DEF T
  <2>1. Len(PathTo[c]) = 0
    BY <1>1
  <2>2. c # Genesis
    BY <1>3, <2>1
  <2>3. PREV[c] \in Blocks /\ PathTo[c] = Append(PathTo[PREV[c]], c)
    BY <2>2, PathAssumption
  <2>4. Len(PathTo[c]) = Len(PathTo[PREV[c]]) + 1
    BY <1>1, <1>2, <2>3
  <2> QED BY <1>1, <2>1, <2>3, <2>4
<1>6. ASSUME NEW k \in Nat, k \in T PROVE k + 1 \in T
  <2> HIDE DEF Good
  <2> SUFFICES ASSUME NEW c \in Blocks, Len(PathTo[c]) <= k + 1 PROVE Good(c)
    OBVIOUS
  <2>1. CASE c = Genesis
    BY <1>3, <2>1
  <2>2. CASE c # Genesis
    <3>1. PREV[c] \in Blocks /\ PathTo[c] = Append(PathTo[PREV[c]], c)
      BY <2>2, PathAssumption
    <3>2. Len(PathTo[c]) = Len(PathTo[PREV[c]]) + 1
      BY <1>1, <1>2, <3>1
    <3>3. Len(PathTo[PREV[c]]) <= k
      BY <1>1, <3>1, <3>2
    <3>4. Good(PREV[c])
      BY <1>6, <3>1, <3>3
    <3> QED BY <1>4, <2>2, <3>4
  <2> QED BY <2>1, <2>2
<1>7. Len(PathTo[b]) \in T
  <2> HIDE DEF T
  <2> QED BY <1>1, <1>5, <1>6, NatSetInduction
<1>8. Good(b)
  <2> HIDE DEF Good
  <2> QED BY <1>1, <1>7
<1> QED BY <1>1, <1>8

LEMMA PathSet ==
  ASSUME NEW b \in Blocks
  PROVE  /\ Range(PathTo[b]) \subseteq Blocks /\ b \in Range(PathTo[b])
         /\ \A y \in Range(PathTo[b]) : Range(PathTo[y]) \subseteq Range(PathTo[b])
<1>1. PICK s \in Seq(Blocks) : s = PathTo[b]
  BY PathFacts
<1>2. Range(s) \subseteq Blocks
  BY DEF Range
<1> QED BY <1>1, <1>2, PathFacts

\* A locator always names genesis.
LEMMA LocatorKnows ==
  ASSUME NEW b \in Blocks
  PROVE  Genesis \in Locator(b)
<1>1. 0 \in LocatorHeights(Len(PathTo[b]) - 1) /\ PathTo[b][0 + 1] = Genesis
  BY PathFacts DEF LocatorHeights
<1> QED BY <1>1 DEF Locator

\* What a node answers to a locator are blocks it has.
LEMMA HashesKnown ==
  ASSUME NetTypes, KnownClosed, NEW n \in Nodes, NEW locator, Genesis \in locator
  PROVE  /\ HashesAfter(n, locator) \in Seq(Blocks)
         /\ Range(HashesAfter(n, locator)) \subseteq known[n]
<1>1. PICK a : a = Active(n)
  OBVIOUS
<1>2. /\ a \in Seq(Blocks) /\ Len(a) \in Nat \ {0} /\ a[1] = Genesis
      /\ Range(a) \subseteq known[n]
  BY <1>1, PathFacts DEF NetTypes, KnownClosed, Active
<1>3. PICK len \in Nat \ {0} : len = Len(a) /\ DOMAIN a = 1..len
  BY <1>2
<1>4. PICK common : common = {i \in 1..len : a[i] \in locator}
  OBVIOUS
<1>5. 1 \in common /\ common \subseteq 1..len
  BY <1>2, <1>4
<1>6. PICK f \in common : \A j \in common : j <= f
  <2>1. PICK R : R = {len - i : i \in common}
    OBVIOUS
  <2>2. R \subseteq Nat /\ R # {}
    BY <1>5, <2>1
  <2>3. PICK m \in R : \A k \in R : m <= k
    BY <2>2, LeastNat
  <2>4. PICK g \in common : m = len - g
    BY <2>1, <2>3
  <2>5. \A j \in common : len - g <= len - j
    BY <2>1, <2>3, <2>4
  <2>6. \A j \in common : j <= g
    BY ONLY <2>5, <1>5, len \in Nat, g \in common
  <2> QED BY <2>6
<1>7. PICK fork \in 1..len : fork = CHOOSE i \in common : \A j \in common : j <= i
  BY <1>5, <1>6
<1>8. PICK end \in Nat : end = IF len < fork + BLOCKS_PER_ROUND THEN len ELSE fork + BLOCKS_PER_ROUND
  BY SyncAssumption
<1>9. HashesAfter(n, locator) = SubSeq(a, fork + 1, end)
  BY <1>1, <1>3, <1>4, <1>7, <1>8 DEF HashesAfter
<1>10. fork <= end /\ end <= len
  BY <1>8, SyncAssumption
<1>11. PICK s : s = SubSeq(a, fork + 1, end)
  OBVIOUS
<1>12. s \in Seq(Blocks) /\ Len(s) = end - fork /\ \A i \in 1..(end - fork) : s[i] = a[fork + i]
  BY <1>2, <1>3, <1>10, <1>11
<1>13. Range(s) \subseteq Range(a)
  <2>1. DOMAIN s = 1..(end - fork)
    BY <1>12
  <2>2. \A i \in 1..(end - fork) : fork + i \in 1..len
    BY ONLY <1>10, fork \in 1..len, end \in Nat, len \in Nat
  <2> QED BY ONLY <2>1, <2>2, <1>3, <1>12 DEF Range
<1> QED BY <1>2, <1>9, <1>11, <1>12, <1>13
-----------------------------------------------------------------------------
(***************************************************************************)
(* Handlers.                                                               *)
(***************************************************************************)
\* The two ends of a link.
Ends(n, m) ==
    /\ n \in Nodes /\ m \in Nodes /\ n # m
    /\ <<n, m>> \in Pairs /\ <<m, n>> \in Pairs
    /\ {n, m} \in Topology /\ {m, n} = {n, m}

LEMMA PairEnds ==
  ASSUME NEW p \in Pairs
  PROVE  Ends(p[1], p[2])
BY PairFacts DEF Ends

\* Messages to one peer, and the messages of honest nodes.
LEMMA ReplyType ==
  ASSUME NEW n, NEW m, Ends(n, m), NEW ms \in Seq(Messages)
  PROVE  /\ Reply(n, m, ms) \in [Pairs -> Seq(Messages)]
         /\ Silence \in [Pairs -> Seq(Messages)]
         /\ \A p \in Pairs : /\ Silence[p] = <<>>
                             /\ Reply(n, m, ms)[p] = IF p = <<n, m>> THEN ms ELSE <<>>
<1>1. PICK z \in Seq(Messages) : z = <<>>
  <2>1. \A S : <<>> \in Seq(S)
    BY ONLY TRUE
  <2> QED BY ONLY <2>1
<1>2. Silence = [p \in Pairs |-> z]
  BY <1>1 DEF Silence
<1>3. PICK q \in Pairs : q = <<n, m>>
  BY DEF Ends
<1>4. Reply(n, m, ms) = [Silence EXCEPT ![q] = ms]
  BY <1>3 DEF Reply
<1>5. Reply(n, m, ms) = [p \in Pairs |-> IF p = q THEN ms ELSE z]
  BY ONLY <1>2, <1>4
<1>6. Silence \in [Pairs -> Seq(Messages)] /\ Reply(n, m, ms) \in [Pairs -> Seq(Messages)]
  BY ONLY <1>2, <1>5, ms \in Seq(Messages), z \in Seq(Messages)
<1> QED BY <1>1, <1>2, <1>3, <1>5, <1>6

LEMMA RangeOne == \A x : Range(<<x>>) = {x} /\ Range(<<>>) = {}
BY DEF Range

LEMMA MessageType ==
  /\ \A b \in Blocks : GetBlocks(b) \in Messages /\ Block(b) \in Messages
  /\ \A bs \in Seq(Blocks) : Inv(bs) \in Messages /\ GetData(bs) \in Messages
  /\ \A t \in Txs : InvTx(t) \in Messages /\ GetTx(t) \in Messages /\ Tx(t) \in Messages
<1>1. \A b \in Blocks : GetBlocks(b) \in [type : {"GetBlocks"}, locator : {Locator(c) : c \in Blocks}]
  BY DEF GetBlocks
<1>2. \A b \in Blocks : Block(b) \in [type : {"Block"}, block : Blocks]
  BY DEF Block
<1>3. \A bs \in Seq(Blocks) : /\ Inv(bs) \in [type : {"Inv", "GetData"}, blocks : Seq(Blocks)]
                             /\ GetData(bs) \in [type : {"Inv", "GetData"}, blocks : Seq(Blocks)]
  BY DEF Inv, GetData
<1>4. \A t \in Txs : /\ InvTx(t) \in [type : {"InvTx", "GetTx", "Tx"}, tx : Txs]
                    /\ GetTx(t) \in [type : {"InvTx", "GetTx", "Tx"}, tx : Txs]
                    /\ Tx(t) \in [type : {"InvTx", "GetTx", "Tx"}, tx : Txs]
  BY DEF InvTx, GetTx, Tx
<1> QED BY <1>1, <1>2, <1>3, <1>4 DEF Messages

\* The payload of a message of each type.
LEMMA MessageParts ==
  ASSUME NEW x \in Messages
  PROVE  /\ x.type \in {"Inv", "GetData"} => x.blocks \in Seq(Blocks)
         /\ x.type = "Block" => x.block \in Blocks /\ x = Block(x.block)
         /\ x.type = "InvTx" => x.tx \in Txs /\ x = InvTx(x.tx)
         /\ x.type = "GetTx" => x.tx \in Txs /\ x = GetTx(x.tx)
         /\ x.type = "Tx" => x.tx \in Txs /\ x = Tx(x.tx)
BY DEF Messages, Block, InvTx, GetTx, Tx

\* A handler that answers honestly keeps the queues sound.
LEMMA DeliverKeeps ==
  ASSUME SyncInv, NEW c \in Pairs, chan[c] # <<>>, NEW out \in [Pairs -> Seq(Messages)],
         chan' = Deliver(c, out), links' = links,
         \A k \in Nodes : known[k] \subseteq known'[k],
         \A p \in Pairs : out[p] # <<>> => {p[1], p[2]} \in links,
         \A p \in Pairs : \A x \in Range(out[p]) : Sound(x, p, known')
  PROVE  /\ chan' \in [Pairs -> Seq(Messages)]
         /\ MessagesSound'
         /\ \A p \in Pairs : {p[1], p[2]} \notin links' => chan'[p] = <<>>
<1>1. /\ chan' \in [Pairs -> Seq(Messages)]
      /\ \A p \in Pairs : In(p)' \subseteq In(p) \cup Range(out[p])
  BY Delivered DEF SyncInv, NetTypes
<1>2. ASSUME NEW p \in Pairs, NEW x \in In(p)' PROVE Sound(x, p, known')
  <2>1. CASE x \in In(p)
    <3>1. Sound(x, p, known) /\ p[1] \in Nodes /\ p[2] \in Nodes
      BY <2>1, PairFacts DEF SyncInv, MessagesSound
    <3> QED BY <3>1 DEF Sound
  <2>2. CASE x \in Range(out[p])
    BY <2>2
  <2> QED BY <1>1, <1>2, <2>1, <2>2
<1>3. ASSUME NEW p \in Pairs, {p[1], p[2]} \notin links' PROVE chan'[p] = <<>>
  <2>1. chan[p] = <<>> /\ p # c /\ out[p] = <<>>
    BY <1>3 DEF SyncInv, LinksOnly
  <2>2. chan'[p] = chan[p] \o out[p]
    BY <2>1 DEF Deliver
  <2>3. <<>> \o <<>> = <<>>
    OBVIOUS
  <2> QED BY <2>1, <2>2, <2>3
<1> QED BY <1>1, <1>2, <1>3 DEF MessagesSound

\* What somebody waits for stays in a queue, unless it is handled.
LEMMA WaitKept ==
  ASSUME SyncInv, NEW n, NEW m, Ends(n, m), chan[<<m, n>>] # <<>>,
         NEW out \in [Pairs -> Seq(Messages)], chan' = Deliver(<<m, n>>, out),
         NEW p \in Pairs, NEW b, Wait(p, b),
         p = <<m, n>> => Msg(n, m).type # "GetData" \/ b \notin Range(Msg(n, m).blocks),
         p = <<n, m>> => Msg(n, m) # Block(b)
  PROVE  Wait(p, b)'
<1>1. \A q \in Pairs : \A x \in In(q) : q # <<m, n>> \/ x # Msg(n, m) => x \in In(q)'
  BY Delivered DEF SyncInv, NetTypes, Ends, Msg
<1>2. ASSUME NEW x \in In(p), x.type = "GetData", b \in Range(x.blocks) PROVE Wait(p, b)'
  BY <1>1, <1>2 DEF Wait
<1>3. ASSUME Block(b) \in In(<<p[2], p[1]>>) PROVE Wait(p, b)'
  <2>1. <<p[2], p[1]>> \in Pairs /\ p = <<p[1], p[2]>>
    BY PairFacts
  <2>2. <<p[2], p[1]>> = <<m, n>> => p = <<n, m>>
    BY <2>1
  <2> QED BY <1>1, <1>3, <2>1, <2>2 DEF Wait
<1> QED BY <1>2, <1>3 DEF Wait
\* Nothing is taken but the message that is handled.
OthersStay(n, m) ==
    \A p \in Pairs : \A x \in In(p) : p # <<m, n>> \/ x # Msg(n, m) => x \in In(p)'

\* A handler of node n that takes a message of m.
LEMMA HandlerKeeps ==
  ASSUME SyncInv, NEW n, NEW m, Ends(n, m), m \in Peers(n), chan[<<m, n>>] # <<>>,
         NEW out \in [Pairs -> Seq(Messages)], chan' = Deliver(<<m, n>>, out),
         UNCHANGED <<setup, links>>,
         known' \in [Nodes -> SUBSET Blocks], tip' \in [Nodes -> Blocks],
         saved' \in [Nodes -> Blocks], KnownClosed',
         \A k \in Nodes : known[k] \subseteq known'[k],
         \A p \in Pairs : out[p] # <<>> => {p[1], p[2]} \in links,
         \A p \in Pairs : \A x \in Range(out[p]) : Sound(x, p, known'),
         requested' \in [Pairs -> SUBSET Blocks],
         \A p \in Pairs : p # <<n, m>> => requested'[p] = requested[p],
         \A b \in requested'[<<n, m>>] :
            \/ \E x \in Range(out[<<n, m>>]) : x.type = "GetData" /\ b \in Range(x.blocks)
            \/ b \in requested[<<n, m>>] /\ Msg(n, m) # Block(b),
         Msg(n, m).type = "GetData" =>
            \A b \in Range(Msg(n, m).blocks) : Block(b) \in Range(out[<<n, m>>])
  PROVE  SyncInv' /\ OthersStay(n, m)
<1>1. <<n, m>> \in Pairs /\ <<m, n>> \in Pairs /\ n # m /\ {n, m} \in links
  BY DEF Ends, Peers
<1>2. /\ chan' \in [Pairs -> Seq(Messages)] /\ MessagesSound'
      /\ \A p \in Pairs : {p[1], p[2]} \notin links' => chan'[p] = <<>>
  BY <1>1, DeliverKeeps
<1>3. NetTypes'
  BY <1>2 DEF SyncInv, NetTypes
<1>4. LinksOnly'
  <2>1. ASSUME NEW p \in Pairs, {p[1], p[2]} \notin links' PROVE requested'[p] = {}
    <3>1. {p[1], p[2]} \notin links
      BY <2>1
    <3>2. <<n, m>>[1] = n /\ <<n, m>>[2] = m
      OBVIOUS
    <3>3. p # <<n, m>>
      BY ONLY <1>1, <3>1, <3>2
    <3> QED BY <3>1, <3>3 DEF SyncInv, LinksOnly
  <2> QED BY <1>2, <2>1 DEF LinksOnly
<1>5. ASSUME NEW p \in Pairs, NEW b \in requested'[p] PROVE Wait(p, b)'
  <2>1. \A q \in Pairs : Range(out[q]) \subseteq In(q)'
    BY <1>1, Delivered DEF SyncInv, NetTypes
  <2>2. CASE p = <<n, m>> /\ \E x \in Range(out[p]) : x.type = "GetData" /\ b \in Range(x.blocks)
    BY <2>1, <2>2 DEF Wait
  <2>3. CASE p = <<n, m>> /\ b \in requested[p] /\ Msg(n, m) # Block(b)
    <3>1. Wait(p, b) /\ p # <<m, n>>
      BY <1>1, <2>3 DEF SyncInv, RequestsWait
    <3> QED BY <2>3, <3>1, WaitKept
  <2>4. CASE p # <<n, m>>
    <3>1. Wait(p, b)
      BY <1>5, <2>4 DEF SyncInv, RequestsWait
    <3>2. CASE p = <<m, n>> /\ Msg(n, m).type = "GetData" /\ b \in Range(Msg(n, m).blocks)
      <4>1. Block(b) \in In(<<n, m>>)' /\ <<p[2], p[1]>> = <<n, m>>
        BY <1>1, <2>1, <3>2
      <4> QED BY <4>1 DEF Wait
    <3>3. CASE ~ (p = <<m, n>> /\ Msg(n, m).type = "GetData" /\ b \in Range(Msg(n, m).blocks))
      BY <2>4, <3>1, <3>3, WaitKept
    <3> QED BY <3>2, <3>3
  <2> QED BY <1>5, <2>2, <2>3, <2>4
<1>6. OthersStay(n, m)
  BY <1>1, Delivered DEF SyncInv, NetTypes, Msg, OthersStay
<1> QED BY <1>2, <1>3, <1>4, <1>5, <1>6 DEF SyncInv, RequestsWait

\* A node learns a block whose parent it has.
LEMMA ConnectsKeeps ==
  ASSUME SyncInv, NEW n \in Nodes, NEW b \in Blocks, b \notin known[n], PREV[b] \in known[n],
         Connects(n, b)
  PROVE  /\ known' \in [Nodes -> SUBSET Blocks] /\ tip' \in [Nodes -> Blocks]
         /\ saved' \in [Nodes -> Blocks] /\ KnownClosed'
         /\ \A k \in Nodes : known[k] \subseteq known'[k]
         /\ b \in known'[n] /\ NewTip(n, b) \in Blocks
<1>1. known \in [Nodes -> SUBSET Blocks] /\ tip \in [Nodes -> Blocks] /\ saved \in [Nodes -> Blocks]
  BY DEF SyncInv, NetTypes
<1>2. /\ known' = [known EXCEPT ![n] = known[n] \cup {b}] /\ tip' = [tip EXCEPT ![n] = NewTip(n, b)]
      /\ saved' = saved \/ saved' = [saved EXCEPT ![n] = b]
  BY DEF Connects
<1>3. NewTip(n, b) \in {b, tip[n]}
  BY DEF NewTip
<1>4. /\ known' \in [Nodes -> SUBSET Blocks] /\ tip' \in [Nodes -> Blocks]
      /\ saved' \in [Nodes -> Blocks] /\ NewTip(n, b) \in Blocks
      /\ \A k \in Nodes : known[k] \subseteq known'[k]
      /\ known'[n] = known[n] \cup {b} /\ \A k \in Nodes \ {n} : known'[k] = known[k] /\ tip'[k] = tip[k]
      /\ tip'[n] \in {b, tip[n]}
  BY <1>1, <1>2, <1>3
<1>5. b # Genesis
  <2>1. tip[n] \in Blocks /\ Range(PathTo[tip[n]]) \subseteq known[n]
    BY <1>1 DEF SyncInv, KnownClosed
  <2>2. /\ PathTo[tip[n]] \in Seq(Blocks) /\ Len(PathTo[tip[n]]) \in Nat \ {0}
        /\ PathTo[tip[n]][1] = Genesis
    BY <2>1, PathFacts
  <2>3. Genesis \in Range(PathTo[tip[n]])
    BY <2>2 DEF Range
  <2> QED BY <2>1, <2>3
<1>6. Range(PathTo[b]) \subseteq known'[n]
  <2>1. PREV[b] \in Blocks /\ PathTo[b] = Append(PathTo[PREV[b]], b)
    BY <1>5, PathAssumption
  <2>2. PICK q \in Seq(Blocks) : q = PathTo[PREV[b]]
    BY <2>1, PathAssumption
  <2>3. Range(Append(q, b)) = Range(q) \cup {b}
    BY RangeAppend
  <2>4. Range(q) \subseteq known[n]
    BY <2>2 DEF SyncInv, KnownClosed
  <2> QED BY <1>4, <2>1, <2>2, <2>3, <2>4
<1>7. ASSUME NEW k \in Nodes
      PROVE  tip'[k] \in known'[k] /\ \A c \in known'[k] : Range(PathTo[c]) \subseteq known'[k]
  <2>1. tip[k] \in known[k] /\ \A c \in known[k] : Range(PathTo[c]) \subseteq known[k]
    BY DEF SyncInv, KnownClosed
  <2>2. CASE k = n
    BY <1>4, <1>6, <2>1, <2>2
  <2>3. CASE k # n
    BY <1>4, <2>1, <2>3
  <2> QED BY <2>2, <2>3
<1> QED BY <1>4, <1>7 DEF KnownClosed

\* accept_block announces a block the node has by then, to its peers.
LEMMA AnnounceType ==
  ASSUME NEW n \in Nodes, NEW b \in Blocks, NEW from, NEW have, b \in have[n]
  PROVE  /\ Announce(n, b, from) \in [Pairs -> Seq(Messages)]
         /\ \A p \in Pairs : Announce(n, b, from)[p] # <<>> => {p[1], p[2]} \in links
         /\ \A p \in Pairs : \A x \in Range(Announce(n, b, from)[p]) :
               Sound(x, p, have) /\ x = Inv(<<b>>)
<1>1. <<b>> \in Seq(Blocks)
  OBVIOUS
<1>2. Inv(<<b>>) \in Messages
  BY <1>1, MessageType
<1>3. <<>> \in Seq(Messages) /\ <<Inv(<<b>>)>> \in Seq(Messages)
  BY <1>2
<1>4. PICK A : A = Announce(n, b, from)
  OBVIOUS
<1>5. A = [p \in Pairs |-> IF p[1] = n /\ p[2] \in Peers(n) \ from /\ NewTip(n, b) = b
                           THEN <<Inv(<<b>>)>> ELSE <<>>]
  BY <1>4 DEF Announce
<1>6. A \in [Pairs -> Seq(Messages)]
  BY <1>3, <1>5
<1>7. ASSUME NEW p \in Pairs
      PROVE  A[p] = <<>> \/ (A[p] = <<Inv(<<b>>)>> /\ p[1] = n /\ p[2] \in Peers(n))
  BY ONLY <1>5, p \in Pairs
<1>8. ASSUME NEW p \in Pairs, A[p] # <<>> PROVE {p[1], p[2]} \in links
  <2>1. p[1] = n /\ p[2] \in Peers(n)
    BY ONLY <1>7, <1>8, p \in Pairs
  <2> QED BY ONLY <2>1 DEF Peers
<1>9. ASSUME NEW p \in Pairs, NEW x \in Range(A[p]) PROVE Sound(x, p, have) /\ x = Inv(<<b>>)
  <2>0. PICK a : a = A[p]
    OBVIOUS
  <2>1. a = <<Inv(<<b>>)>> /\ p[1] = n
    <3>1. x \in Range(a) /\ Range(<<>>) = {}
      BY <1>9, <2>0, RangeOne
    <3>2. a # <<>>
      BY ONLY <3>1
    <3> QED BY ONLY <1>7, <2>0, <3>2, p \in Pairs
  <2>2. x = Inv(<<b>>)
    BY ONLY <1>9, <2>0, <2>1, RangeOne
  <2>3. x.type = "Inv" /\ Range(x.blocks) = {b}
    BY <2>2, RangeOne DEF Inv
  <2> QED BY <2>1, <2>2, <2>3 DEF Sound
<1> QED BY <1>4, <1>6, <1>8, <1>9

\* A handler of node n takes a message of m, and sends it the messages ms.
Answers(n, m, ms) ==
    \/ chan' = Deliver(<<m, n>>, Reply(n, m, ms))
    \/ chan' = Deliver(<<m, n>>, Silence) /\ ms = <<>>

\* A handler that changes no chain and answers its peer at most.
LEMMA ReplyKeeps ==
  ASSUME SyncInv, NEW n, NEW m, Ends(n, m), m \in Peers(n), chan[<<m, n>>] # <<>>,
         NEW ms \in Seq(Messages), Answers(n, m, ms),
         UNCHANGED <<setup, known, tip, links, saved>>,
         \A x \in Range(ms) : Sound(x, <<n, m>>, known),
         requested' \in [Pairs -> SUBSET Blocks],
         \A p \in Pairs : p # <<n, m>> => requested'[p] = requested[p],
         \A b \in requested'[<<n, m>>] :
            \/ \E x \in Range(ms) : x.type = "GetData" /\ b \in Range(x.blocks)
            \/ b \in requested[<<n, m>>] /\ Msg(n, m) # Block(b),
         Msg(n, m).type = "GetData" =>
            \A b \in Range(Msg(n, m).blocks) : Block(b) \in Range(ms)
  PROVE  SyncInv' /\ OthersStay(n, m)
<1>1. PICK out \in [Pairs -> Seq(Messages)] :
         /\ chan' = Deliver(<<m, n>>, out)
         /\ \A p \in Pairs : out[p] = IF p = <<n, m>> THEN ms ELSE <<>>
  <2>1. CASE chan' = Deliver(<<m, n>>, Reply(n, m, ms))
    <3>1. PICK out : out = Reply(n, m, ms)
      OBVIOUS
    <3>2. /\ out \in [Pairs -> Seq(Messages)]
          /\ \A p \in Pairs : out[p] = IF p = <<n, m>> THEN ms ELSE <<>>
      BY <3>1, ReplyType
    <3> QED BY <2>1, <3>1, <3>2
  <2>2. CASE chan' = Deliver(<<m, n>>, Silence) /\ ms = <<>>
    <3>1. PICK out : out = Silence
      OBVIOUS
    <3>2. out \in [Pairs -> Seq(Messages)] /\ \A p \in Pairs : out[p] = <<>>
      BY <3>1, ReplyType
    <3> QED BY <2>2, <3>1, <3>2
  <2> QED BY <2>1, <2>2 DEF Answers
<1>2. <<n, m>> \in Pairs /\ {n, m} \in links
  BY DEF Ends, Peers
<1>3. out[<<n, m>>] = ms
  BY <1>1, <1>2
<1>4. \A p \in Pairs : out[p] # <<>> => {p[1], p[2]} \in links
  <2> SUFFICES ASSUME NEW p \in Pairs, out[p] # <<>> PROVE {p[1], p[2]} \in links
    OBVIOUS
  <2>1. p = <<n, m>>
    BY <1>1
  <2> QED BY ONLY <2>1, <1>2
<1>5. \A p \in Pairs : \A x \in Range(out[p]) : Sound(x, p, known')
  <2> SUFFICES ASSUME NEW p \in Pairs, NEW x \in Range(out[p]) PROVE Sound(x, p, known)
    OBVIOUS
  <2>1. CASE p = <<n, m>>
    BY <1>3, <2>1
  <2>2. CASE p # <<n, m>>
    <3>1. out[p] = <<>>
      BY <1>1, <2>2
    <3> QED BY <3>1, RangeOne
  <2> QED BY <2>1, <2>2
<1>6. /\ known' \in [Nodes -> SUBSET Blocks] /\ tip' \in [Nodes -> Blocks]
      /\ saved' \in [Nodes -> Blocks] /\ KnownClosed'
      /\ \A k \in Nodes : known[k] \subseteq known'[k]
  BY DEF SyncInv, NetTypes, KnownClosed
<1> QED BY <1>1, <1>3, <1>4, <1>5, <1>6, HandlerKeeps

\* A handler that leaves the requests alone too.
LEMMA AnswerKeeps ==
  ASSUME SyncInv, NEW n, NEW m, Ends(n, m), m \in Peers(n), chan[<<m, n>>] # <<>>,
         NEW ms \in Seq(Messages), Answers(n, m, ms),
         UNCHANGED <<setup, known, tip, links, requested, saved>>,
         \A x \in Range(ms) : Sound(x, <<n, m>>, known),
         Msg(n, m).type # "Block",
         Msg(n, m).type = "GetData" =>
            \A b \in Range(Msg(n, m).blocks) : Block(b) \in Range(ms)
  PROVE  SyncInv' /\ OthersStay(n, m)
<1>1. requested' \in [Pairs -> SUBSET Blocks]
  BY DEF SyncInv, NetTypes
<1>2. \A b : Msg(n, m) # Block(b)
  BY DEF Block
<1>3. \A b \in requested'[<<n, m>>] :
         \/ \E x \in Range(ms) : x.type = "GetData" /\ b \in Range(x.blocks)
         \/ b \in requested[<<n, m>>] /\ Msg(n, m) # Block(b)
  BY <1>2
<1>4. UNCHANGED <<setup, known, tip, links, saved>>
  OBVIOUS
<1>5. \A p \in Pairs : p # <<n, m>> => requested'[p] = requested[p]
  OBVIOUS
<1> QED BY <1>1, <1>3, <1>4, <1>5, ReplyKeeps

\* The message that a handler takes.
LEMMA TakesMessage ==
  ASSUME SyncInv, NEW n, NEW m, Ends(n, m), NEW type, Receives(n, m, type)
  PROVE  /\ m \in Peers(n) /\ chan[<<m, n>>] # <<>> /\ Msg(n, m).type = type
         /\ Msg(n, m) \in Messages /\ Sound(Msg(n, m), <<m, n>>, known)
         /\ Msg(n, m) \in In(<<m, n>>)
<1>1. m \in Peers(n) /\ chan[<<m, n>>] # <<>> /\ Msg(n, m).type = type
  BY DEF Receives, Msg
<1>2. PICK s \in Seq(Messages) : s = chan[<<m, n>>]
  BY DEF SyncInv, NetTypes, Ends
<1>3. Head(s) \in Messages /\ Head(s) \in Range(s)
  BY <1>1, <1>2, RangeTail
<1>4. Msg(n, m) \in In(<<m, n>>)
  BY <1>2, <1>3 DEF Msg, In
<1>5. Sound(Msg(n, m), <<m, n>>, known)
  BY <1>4 DEF SyncInv, MessagesSound, Ends
<1> QED BY <1>1, <1>2, <1>3, <1>4, <1>5 DEF Msg

\* What is answered is sent.
LEMMA ReplySent ==
  ASSUME NetTypes, NEW n, NEW m, Ends(n, m), chan[<<m, n>>] # <<>>,
         NEW ms \in Seq(Messages), chan' = Deliver(<<m, n>>, Reply(n, m, ms))
  PROVE  Range(ms) \subseteq In(<<n, m>>)'
<1>1. PICK out : out = Reply(n, m, ms)
  OBVIOUS
<1>2. out \in [Pairs -> Seq(Messages)] /\ out[<<n, m>>] = ms
  BY <1>1, ReplyType DEF Ends
<1>3. PICK c \in Pairs, d \in Pairs : c = <<m, n>> /\ d = <<n, m>>
  BY DEF Ends
<1>4. Range(out[d]) \subseteq In(d)'
  BY <1>1, <1>2, <1>3, Delivered DEF NetTypes
<1> QED BY <1>2, <1>3, <1>4

LEMMA HelloKeeps ==
  ASSUME SyncInv, NEW n, NEW m, Ends(n, m), OnHello(n, m)
  PROVE  SyncInv' /\ OthersStay(n, m)
<1>1. m \in Peers(n) /\ chan[<<m, n>>] # <<>> /\ Msg(n, m).type = "Hello"
  BY TakesMessage DEF OnHello
<1>2. PICK ask \in Messages : ask = GetBlocks(tip[n]) /\ Sound(ask, <<n, m>>, known)
  <2>1. tip[n] \in Blocks
    BY DEF SyncInv, NetTypes, Ends
  <2>2. GetBlocks(tip[n]).type = "GetBlocks" /\ Genesis \in GetBlocks(tip[n]).locator
    BY <2>1, LocatorKnows DEF GetBlocks
  <2> QED BY <2>1, <2>2, MessageType DEF Sound
<1>3. <<ask>> \in Seq(Messages) /\ <<>> \in Seq(Messages) /\ Range(<<ask>>) = {ask}
  BY RangeOne
<1>4. PICK ms \in Seq(Messages) : Answers(n, m, ms) /\ Range(ms) \subseteq {ask}
  BY <1>2, <1>3, RangeOne DEF OnHello, Answers
<1>5. UNCHANGED <<setup, known, tip, links, requested, saved>>
  BY DEF OnHello
<1>6. \A x \in Range(ms) : Sound(x, <<n, m>>, known)
  BY <1>2, <1>4
<1> QED BY <1>1, <1>4, <1>5, <1>6, AnswerKeeps

LEMMA GetBlocksKeeps ==
  ASSUME SyncInv, NEW n, NEW m, Ends(n, m), OnGetBlocks(n, m)
  PROVE  SyncInv' /\ OthersStay(n, m)
<1>1. /\ m \in Peers(n) /\ chan[<<m, n>>] # <<>> /\ Msg(n, m).type = "GetBlocks"
      /\ Sound(Msg(n, m), <<m, n>>, known)
  BY TakesMessage DEF OnGetBlocks
<1>2. PICK hashes : hashes = HashesAfter(n, Msg(n, m).locator)
  OBVIOUS
<1>3. hashes \in Seq(Blocks) /\ Range(hashes) \subseteq known[n]
  <2>1. Genesis \in Msg(n, m).locator /\ n \in Nodes
    BY <1>1 DEF Sound, Ends
  <2> QED BY <1>2, <2>1, HashesKnown DEF SyncInv
<1>4. PICK inv \in Messages : inv = Inv(hashes) /\ Sound(inv, <<n, m>>, known)
  <2>1. Inv(hashes).type = "Inv" /\ Inv(hashes).blocks = hashes /\ <<n, m>>[1] = n
    BY DEF Inv
  <2> QED BY <1>3, <2>1, MessageType DEF Sound
<1>5. <<inv>> \in Seq(Messages) /\ <<>> \in Seq(Messages) /\ Range(<<inv>>) = {inv}
  BY RangeOne
<1>6. PICK ms \in Seq(Messages) : Answers(n, m, ms) /\ Range(ms) \subseteq {inv}
  BY <1>2, <1>4, <1>5, RangeOne DEF OnGetBlocks, Answers
<1>7. UNCHANGED <<setup, known, tip, links, requested, saved>>
  BY DEF OnGetBlocks
<1>8. \A x \in Range(ms) : Sound(x, <<n, m>>, known)
  BY <1>4, <1>6
<1> QED BY <1>1, <1>6, <1>7, <1>8, AnswerKeeps

\* What is asked for was announced, so the peer has it.
LEMMA InvKeeps ==
  ASSUME SyncInv, NEW n, NEW m, Ends(n, m), OnInv(n, m)
  PROVE  SyncInv' /\ OthersStay(n, m)
<1>1. /\ m \in Peers(n) /\ chan[<<m, n>>] # <<>> /\ Msg(n, m).type = "Inv"
      /\ Msg(n, m) \in Messages /\ Sound(Msg(n, m), <<m, n>>, known)
  BY TakesMessage DEF OnInv
<1>2. PICK want : want = Wanted(n, m, Msg(n, m).blocks)
  OBVIOUS
<1>3. want \in Seq(Blocks) /\ Range(want) \subseteq known[m]
  <2>1. Msg(n, m).blocks \in Seq(Blocks) /\ Range(Msg(n, m).blocks) \subseteq known[m]
    BY <1>1, MessageParts DEF Sound
  <2>2. PICK bs \in Seq(Blocks) : bs = Msg(n, m).blocks
    BY <2>1
  <2>3. PICK K : K = Blocks \ (known[n] \cup requested[<<n, m>>])
    OBVIOUS
  <2>4. want = Filter(bs, K)
    BY <1>2, <2>2, <2>3 DEF Wanted
  <2> QED BY <2>1, <2>2, <2>4, FilterRange
<1>4. PICK ask \in Messages : ask = GetData(want) /\ Sound(ask, <<n, m>>, known)
  <2>1. GetData(want).type = "GetData" /\ GetData(want).blocks = want /\ <<n, m>>[2] = m
    BY DEF GetData
  <2> QED BY <1>3, <2>1, MessageType DEF Sound
<1>5. <<ask>> \in Seq(Messages) /\ <<>> \in Seq(Messages) /\ Range(<<ask>>) = {ask}
  BY RangeOne
<1>6. PICK ms \in Seq(Messages) :
         Answers(n, m, ms) /\ Range(ms) \subseteq {ask} /\ (want # <<>> => ask \in Range(ms))
  BY <1>2, <1>4, <1>5, RangeOne DEF OnInv, Answers
<1>7. UNCHANGED <<setup, known, tip, links, saved>>
  BY DEF OnInv
<1>8. \A x \in Range(ms) : Sound(x, <<n, m>>, known)
  BY <1>4, <1>6
<1>9. <<n, m>> \in Pairs /\ requested \in [Pairs -> SUBSET Blocks]
  BY DEF SyncInv, NetTypes, Ends
<1>10. requested' = [requested EXCEPT ![<<n, m>>] = requested[<<n, m>>] \cup Range(want)]
  BY <1>2 DEF OnInv
<1>11. Range(want) \subseteq Blocks
  BY <1>3 DEF Range
<1>12. /\ requested' \in [Pairs -> SUBSET Blocks]
       /\ \A p \in Pairs : p # <<n, m>> => requested'[p] = requested[p]
       /\ requested'[<<n, m>>] = requested[<<n, m>>] \cup Range(want)
  BY <1>9, <1>10, <1>11
<1>13. ASSUME NEW b \in requested'[<<n, m>>]
       PROVE  \/ \E x \in Range(ms) : x.type = "GetData" /\ b \in Range(x.blocks)
              \/ b \in requested[<<n, m>>] /\ Msg(n, m) # Block(b)
  <2>1. Msg(n, m) # Block(b)
    BY <1>1 DEF Block
  <2>2. CASE b \in Range(want)
    <3>1. want # <<>>
      BY <2>2, RangeOne
    <3>2. ask.type = "GetData" /\ b \in Range(ask.blocks)
      BY <1>4, <2>2 DEF GetData
    <3> QED BY <1>6, <3>1, <3>2
  <2> QED BY <1>12, <2>1, <2>2
<1>14. Msg(n, m).type # "GetData"
  BY <1>1
<1> QED BY <1>1, <1>6, <1>7, <1>8, <1>12, <1>13, <1>14, ReplyKeeps

\* Everything asked for is sent: it is known.
LEMMA GetDataKeeps ==
  ASSUME SyncInv, NEW n, NEW m, Ends(n, m), OnGetData(n, m)
  PROVE  SyncInv' /\ OthersStay(n, m)
<1>1. /\ m \in Peers(n) /\ chan[<<m, n>>] # <<>> /\ Msg(n, m).type = "GetData"
      /\ Msg(n, m) \in Messages /\ Sound(Msg(n, m), <<m, n>>, known)
  BY TakesMessage DEF OnGetData
<1>2. PICK bs \in Seq(Blocks) : bs = Msg(n, m).blocks /\ Range(bs) \subseteq known[n]
  BY <1>1, MessageParts DEF Sound
<1>3. PICK have \in Seq(Blocks) : have = Filter(bs, known[n]) /\ Range(have) = Range(bs)
  <2>1. PICK K : K = known[n]
    OBVIOUS
  <2>2. Filter(bs, K) \in Seq(Blocks) /\ Range(Filter(bs, K)) = Range(bs) \cap K
    BY ONLY FilterRange, bs \in Seq(Blocks)
  <2> QED BY <1>2, <2>1, <2>2
<1>4. PICK ms : ms = [i \in DOMAIN have |-> Block(have[i])]
  OBVIOUS
<1>5. ms \in Seq(Messages) /\ Range(ms) = {Block(b) : b \in Range(have)}
  <2>1. PICK k \in Nat : DOMAIN have = 1..k /\ \A i \in 1..k : have[i] \in Blocks
    BY <1>3
  <2>2. \A i \in 1..k : Block(have[i]) \in Messages
    BY <2>1, MessageType
  <2>3. ms \in [1..k -> Messages]
    BY ONLY <1>4, <2>1, <2>2
  <2>4. ms \in Seq(Messages)
    BY ONLY <2>3, k \in Nat
  <2> QED BY ONLY <1>4, <2>1, <2>4 DEF Range
<1>6. Answers(n, m, ms)
  BY <1>2, <1>3, <1>4 DEF OnGetData, Answers
<1>7. UNCHANGED <<setup, known, tip, links, requested, saved>>
  BY DEF OnGetData
<1>8. \A x \in Range(ms) : Sound(x, <<n, m>>, known)
  BY <1>5 DEF Sound, Block
<1>9. \A b \in Range(Msg(n, m).blocks) : Block(b) \in Range(ms)
  BY <1>2, <1>3, <1>5
<1> QED BY <1>1, <1>5, <1>6, <1>7, <1>8, <1>9, AnswerKeeps

\* A duplicate is no longer waited for.
LEMMA DuplicateKeeps ==
  ASSUME SyncInv, NEW n, NEW m, Ends(n, m), OnDuplicate(n, m)
  PROVE  SyncInv' /\ OthersStay(n, m)
<1>1. /\ m \in Peers(n) /\ chan[<<m, n>>] # <<>> /\ Msg(n, m).type = "Block"
      /\ Msg(n, m) \in Messages
  BY TakesMessage DEF OnDuplicate
<1>2. PICK ms \in Seq(Messages) : ms = <<>>
  <2>1. \A S : <<>> \in Seq(S)
    BY ONLY TRUE
  <2> QED BY ONLY <2>1
<1>3. Answers(n, m, ms) /\ Range(ms) = {}
  BY <1>2, RangeOne DEF OnDuplicate, Answers
<1>4. UNCHANGED <<setup, known, tip, links, saved>>
  BY DEF OnDuplicate
<1>5. <<n, m>> \in Pairs /\ requested \in [Pairs -> SUBSET Blocks]
  BY DEF SyncInv, NetTypes, Ends
<1>6. requested' = [requested EXCEPT ![<<n, m>>] = requested[<<n, m>>] \ {Msg(n, m).block}]
  BY DEF OnDuplicate, RequestedAfter
<1>7. /\ requested' \in [Pairs -> SUBSET Blocks]
      /\ \A p \in Pairs : p # <<n, m>> => requested'[p] = requested[p]
      /\ requested'[<<n, m>>] = requested[<<n, m>>] \ {Msg(n, m).block}
  BY <1>5, <1>6
<1>8. \A b \in requested'[<<n, m>>] : b \in requested[<<n, m>>] /\ Msg(n, m) # Block(b)
  BY <1>7 DEF Block
<1>9. Msg(n, m).type # "GetData"
  BY <1>1
<1> QED BY <1>1, <1>3, <1>4, <1>7, <1>8, <1>9, ReplyKeeps

\* After a block of an unknown parent nothing is waited for.
LEMMA OrphanKeeps ==
  ASSUME SyncInv, NEW n, NEW m, Ends(n, m), OnOrphan(n, m)
  PROVE  SyncInv' /\ OthersStay(n, m)
<1>1. /\ m \in Peers(n) /\ chan[<<m, n>>] # <<>> /\ Msg(n, m).type = "Block"
      /\ Msg(n, m) \in Messages
  BY TakesMessage DEF OnOrphan
<1>2. PICK ask \in Messages : ask = GetBlocks(tip[n]) /\ Sound(ask, <<n, m>>, known)
  <2>1. tip[n] \in Blocks
    BY DEF SyncInv, NetTypes, Ends
  <2>2. GetBlocks(tip[n]).type = "GetBlocks" /\ Genesis \in GetBlocks(tip[n]).locator
    BY <2>1, LocatorKnows DEF GetBlocks
  <2> QED BY <2>1, <2>2, MessageType DEF Sound
<1>3. PICK ms \in Seq(Messages) : ms = <<ask>>
  <2>1. <<ask>> \in Seq(Messages)
    BY ONLY ask \in Messages
  <2> QED BY ONLY <2>1
<1>4. Answers(n, m, ms) /\ Range(ms) = {ask}
  BY <1>2, <1>3, RangeOne DEF OnOrphan, Answers
<1>5. UNCHANGED <<setup, known, tip, links, saved>>
  BY DEF OnOrphan
<1>6. <<n, m>> \in Pairs /\ requested \in [Pairs -> SUBSET Blocks]
  BY DEF SyncInv, NetTypes, Ends
<1>7. /\ requested' \in [Pairs -> SUBSET Blocks]
      /\ \A p \in Pairs : p # <<n, m>> => requested'[p] = requested[p]
      /\ requested'[<<n, m>>] = {}
  BY <1>6 DEF OnOrphan
<1>8. Msg(n, m).type # "GetData"
  BY <1>1
<1>9. \A x \in Range(ms) : Sound(x, <<n, m>>, known)
  BY <1>2, <1>4
<1> QED BY <1>1, <1>4, <1>5, <1>7, <1>8, <1>9, ReplyKeeps

\* A block that connects is known before it is announced, and no longer
\* waited for.
LEMMA BlockKeeps ==
  ASSUME SyncInv, NEW n, NEW m, Ends(n, m), OnBlock(n, m)
  PROVE  SyncInv' /\ OthersStay(n, m)
<1>1. /\ m \in Peers(n) /\ chan[<<m, n>>] # <<>> /\ Msg(n, m).type = "Block"
      /\ Msg(n, m) \in Messages
  BY TakesMessage DEF OnBlock
<1>2. PICK b \in Blocks : b = Msg(n, m).block
  BY <1>1, MessageParts
<1>3. PICK left : left = RequestedAfter(n, m, b) /\ left = requested[<<n, m>>] \ {b}
  BY DEF RequestedAfter
<1>4. PICK ms : ms = IF left = {} THEN <<GetBlocks(NewTip(n, b))>> ELSE <<>>
  OBVIOUS
<1>5. PICK A : A = Announce(n, b, {m})
  OBVIOUS
<1>6. PICK out : out = [A EXCEPT ![<<n, m>>] = ms]
  OBVIOUS
<1>7. /\ b \notin known[n] /\ PREV[b] \in known[n] /\ Connects(n, b)
      /\ requested' = [requested EXCEPT ![<<n, m>>] = left]
      /\ chan' = Deliver(<<m, n>>, out) /\ UNCHANGED <<setup, links>>
  BY <1>2, <1>3, <1>4, <1>5, <1>6 DEF OnBlock
<1>8. n \in Nodes /\ <<n, m>> \in Pairs /\ {n, m} \in links
  BY <1>1 DEF Ends, Peers
<1>9. /\ known' \in [Nodes -> SUBSET Blocks] /\ tip' \in [Nodes -> Blocks]
      /\ saved' \in [Nodes -> Blocks] /\ KnownClosed'
      /\ \A k \in Nodes : known[k] \subseteq known'[k]
      /\ b \in known'[n] /\ NewTip(n, b) \in Blocks
  BY <1>7, <1>8, ConnectsKeeps
<1>10. /\ A \in [Pairs -> Seq(Messages)]
       /\ \A p \in Pairs : A[p] # <<>> => {p[1], p[2]} \in links
       /\ \A p \in Pairs : \A x \in Range(A[p]) : Sound(x, p, known')
  BY <1>5, <1>8, <1>9, AnnounceType
<1>11. ms \in Seq(Messages) /\ \A x \in Range(ms) : \A p : Sound(x, p, known')
  <2>1. PICK t \in Blocks : t = NewTip(n, b)
    BY <1>9
  <2>2. PICK ask \in Messages : ask = GetBlocks(t)
    BY MessageType
  <2>3. ask.type = "GetBlocks" /\ Genesis \in ask.locator
    BY <2>2, LocatorKnows DEF GetBlocks
  <2>4. <<ask>> \in Seq(Messages) /\ \A S : <<>> \in Seq(S)
    BY ONLY ask \in Messages
  <2>5. ms = <<ask>> \/ ms = <<>>
    BY <1>4, <2>1, <2>2
  <2>6. ms \in Seq(Messages) /\ Range(ms) \subseteq {ask}
    BY ONLY <2>4, <2>5, RangeOne
  <2> QED BY <2>3, <2>6 DEF Sound
<1>12. /\ out \in [Pairs -> Seq(Messages)] /\ out[<<n, m>>] = ms
       /\ \A p \in Pairs : p # <<n, m>> => out[p] = A[p]
  BY ONLY <1>6, <1>8, <1>10, <1>11
<1>13. \A p \in Pairs : out[p] # <<>> => {p[1], p[2]} \in links
  <2> SUFFICES ASSUME NEW p \in Pairs, out[p] # <<>> PROVE {p[1], p[2]} \in links
    OBVIOUS
  <2>1. CASE p = <<n, m>>
    BY ONLY <1>8, <2>1
  <2>2. CASE p # <<n, m>>
    BY <1>10, <1>12, <2>2
  <2> QED BY <2>1, <2>2
<1>14. \A p \in Pairs : \A x \in Range(out[p]) : Sound(x, p, known')
  <2> SUFFICES ASSUME NEW p \in Pairs, NEW x \in Range(out[p]) PROVE Sound(x, p, known')
    OBVIOUS
  <2>1. CASE p = <<n, m>>
    BY <1>11, <1>12, <2>1
  <2>2. CASE p # <<n, m>>
    BY <1>10, <1>12, <2>2
  <2> QED BY <2>1, <2>2
<1>15. requested \in [Pairs -> SUBSET Blocks]
  BY DEF SyncInv, NetTypes
<1>16. /\ requested' \in [Pairs -> SUBSET Blocks]
       /\ \A p \in Pairs : p # <<n, m>> => requested'[p] = requested[p]
       /\ requested'[<<n, m>>] = requested[<<n, m>>] \ {b}
  BY <1>3, <1>7, <1>8, <1>15
<1>17. \A c \in requested'[<<n, m>>] : c \in requested[<<n, m>>] /\ Msg(n, m) # Block(c)
  BY <1>2, <1>16 DEF Block
<1>18. Msg(n, m).type # "GetData"
  BY <1>1
<1>19. PICK o \in [Pairs -> Seq(Messages)] : o = out
  BY <1>12
<1>20. /\ \A c \in requested'[<<n, m>>] :
             \/ \E x \in Range(o[<<n, m>>]) : x.type = "GetData" /\ c \in Range(x.blocks)
             \/ c \in requested[<<n, m>>] /\ Msg(n, m) # Block(c)
       /\ Msg(n, m).type = "GetData" =>
             \A c \in Range(Msg(n, m).blocks) : Block(c) \in Range(o[<<n, m>>])
  BY <1>17, <1>18
<1>21. /\ chan' = Deliver(<<m, n>>, o)
       /\ \A p \in Pairs : o[p] # <<>> => {p[1], p[2]} \in links
       /\ \A p \in Pairs : \A x \in Range(o[p]) : Sound(x, p, known')
  BY <1>7, <1>13, <1>14, <1>19
<1> HIDE <1>19
<1> QED BY <1>1, <1>7, <1>9, <1>16, <1>20, <1>21, HandlerKeeps

\* Messages that are queued, while none is taken.
LEMMA QueueKeeps ==
  ASSUME SyncInv, NEW out \in [Pairs -> Seq(Messages)],
         chan' = [p \in Pairs |-> chan[p] \o out[p]],
         UNCHANGED <<setup, links, requested>>,
         known' \in [Nodes -> SUBSET Blocks], tip' \in [Nodes -> Blocks],
         saved' \in [Nodes -> Blocks], KnownClosed',
         \A k \in Nodes : known[k] \subseteq known'[k],
         \A p \in Pairs : out[p] # <<>> => {p[1], p[2]} \in links,
         \A p \in Pairs : \A x \in Range(out[p]) : Sound(x, p, known')
  PROVE  /\ SyncInv'
         /\ \A p \in Pairs : In(p)' = In(p) \cup Range(out[p])
<1>1. ASSUME NEW p \in Pairs
      PROVE  chan'[p] \in Seq(Messages) /\ In(p)' = In(p) \cup Range(out[p])
  <2>1. PICK s \in Seq(Messages), t \in Seq(Messages) : s = chan[p] /\ t = out[p]
    BY DEF SyncInv, NetTypes
  <2>2. chan'[p] = s \o t
    BY <2>1
  <2>3. s \o t \in Seq(Messages) /\ Range(s \o t) = Range(s) \cup Range(t)
    BY RangeConcat
  <2> QED BY <2>1, <2>2, <2>3 DEF In
<1>2. NetTypes'
  <2>1. chan' \in [Pairs -> Seq(Messages)]
    BY <1>1
  <2> QED BY <2>1 DEF SyncInv, NetTypes
<1>3. MessagesSound'
  <2>1. ASSUME NEW p \in Pairs, NEW x \in In(p)' PROVE Sound(x, p, known')
    <3>1. CASE x \in In(p)
      <4>1. Sound(x, p, known) /\ p[1] \in Nodes /\ p[2] \in Nodes
        BY <3>1, PairFacts DEF SyncInv, MessagesSound
      <4> QED BY <4>1 DEF Sound
    <3>2. CASE x \in Range(out[p])
      BY <3>2
    <3> QED BY <1>1, <2>1, <3>1, <3>2
  <2> QED BY <2>1 DEF MessagesSound
<1>4. LinksOnly'
  <2>1. ASSUME NEW p \in Pairs, {p[1], p[2]} \notin links' PROVE chan'[p] = <<>> /\ requested'[p] = {}
    <3>1. chan[p] = <<>> /\ out[p] = <<>> /\ requested[p] = {}
      BY <2>1 DEF SyncInv, LinksOnly
    <3>2. chan'[p] = chan[p] \o out[p]
      OBVIOUS
    <3>3. <<>> \o <<>> = <<>>
      BY ONLY TRUE
    <3> QED BY ONLY <3>1, <3>2, <3>3, requested' = requested
  <2> QED BY <2>1 DEF LinksOnly
<1>5. RequestsWait'
  <2>1. ASSUME NEW p \in Pairs, NEW b \in requested'[p] PROVE Wait(p, b)'
    <3>1. Wait(p, b) /\ <<p[2], p[1]>> \in Pairs
      BY <2>1, PairFacts DEF SyncInv, RequestsWait
    <3> QED BY <1>1, <3>1 DEF Wait
  <2> QED BY <2>1 DEF RequestsWait
<1> QED BY <1>1, <1>2, <1>3, <1>4, <1>5 DEF SyncInv

LEMMA MineKeeps ==
  ASSUME SyncInv, NEW n \in Nodes, NEW b \in Blocks, Mine(n, b)
  PROVE  SyncInv' /\ \A p \in Pairs : In(p) \subseteq In(p)'
<1>1. PICK A : A = Announce(n, b, {})
  OBVIOUS
<1>2. /\ b \notin known[n] /\ PREV[b] = tip[n] /\ Connects(n, b)
      /\ chan' = [p \in Pairs |-> chan[p] \o A[p]] /\ UNCHANGED <<setup, links, requested>>
  BY <1>1 DEF Mine
<1>3. PREV[b] \in known[n]
  BY <1>2 DEF SyncInv, KnownClosed
<1>4. /\ known' \in [Nodes -> SUBSET Blocks] /\ tip' \in [Nodes -> Blocks]
      /\ saved' \in [Nodes -> Blocks] /\ KnownClosed'
      /\ \A k \in Nodes : known[k] \subseteq known'[k] /\ b \in known'[n]
  BY <1>2, <1>3, ConnectsKeeps
<1>5. /\ A \in [Pairs -> Seq(Messages)]
      /\ \A p \in Pairs : A[p] # <<>> => {p[1], p[2]} \in links
      /\ \A p \in Pairs : \A x \in Range(A[p]) : Sound(x, p, known')
  BY <1>1, <1>4, AnnounceType
<1> QED BY <1>2, <1>4, <1>5, QueueKeeps

\* Connections end, and maybe a process with all of its own.
LEMMA CloseKeeps ==
  ASSUME SyncInv, NEW gone, Close(gone), UNCHANGED setup,
         known' \in [Nodes -> SUBSET Blocks], tip' \in [Nodes -> Blocks],
         saved' \in [Nodes -> Blocks], KnownClosed',
         \A p \in Pairs : {p[1], p[2]} \in links \ gone =>
            known'[p[1]] = known[p[1]] /\ known'[p[2]] = known[p[2]]
  PROVE  SyncInv'
<1>1. \A S : <<>> \in Seq(S)
  BY ONLY TRUE
<1>2. /\ links' = links \ gone
      /\ chan' = [p \in Pairs |-> IF {p[1], p[2]} \in gone THEN <<>> ELSE chan[p]]
      /\ requested' = [p \in Pairs |-> IF {p[1], p[2]} \in gone THEN {} ELSE requested[p]]
  BY DEF Close
<1>3. /\ chan \in [Pairs -> Seq(Messages)] /\ requested \in [Pairs -> SUBSET Blocks]
      /\ \A p \in Pairs : {p[1], p[2]} \notin links => chan[p] = <<>> /\ requested[p] = {}
  BY DEF SyncInv, NetTypes, LinksOnly
<1>4. NetTypes'
  <2>1. PICK none \in Seq(Messages) : none = <<>>
    BY ONLY <1>1
  <2>2. chan' = [p \in Pairs |-> IF {p[1], p[2]} \in gone THEN none ELSE chan[p]]
    BY <1>2, <2>1
  <2>3. chan' \in [Pairs -> Seq(Messages)] /\ requested' \in [Pairs -> SUBSET Blocks]
    BY ONLY <1>2, <1>3, <2>2, none \in Seq(Messages)
  <2> QED BY <1>2, <2>3 DEF SyncInv, NetTypes
<1>5. ASSUME NEW p \in Pairs
      PROVE  /\ {p[1], p[2]} \in links \ gone => chan'[p] = chan[p] /\ requested'[p] = requested[p]
             /\ {p[1], p[2]} \notin links \ gone => chan'[p] = <<>> /\ requested'[p] = {}
  BY ONLY <1>2, <1>3, p \in Pairs
<1>6. LinksOnly'
  BY <1>2, <1>5 DEF LinksOnly
<1>7. MessagesSound'
  <2>1. ASSUME NEW p \in Pairs, NEW x \in In(p)' PROVE Sound(x, p, known')
    <3>1. {p[1], p[2]} \in links \ gone
      BY <1>5, <2>1, RangeOne DEF In
    <3>2. Sound(x, p, known)
      BY <1>5, <2>1, <3>1 DEF SyncInv, MessagesSound, In
    <3> QED BY <3>1, <3>2 DEF Sound
  <2> QED BY <2>1 DEF MessagesSound
<1>8. RequestsWait'
  <2>1. ASSUME NEW p \in Pairs, NEW b \in requested'[p] PROVE Wait(p, b)'
    <3>1. {p[1], p[2]} \in links \ gone
      BY <1>5, <2>1
    <3>2. Wait(p, b) /\ chan'[p] = chan[p]
      BY <1>5, <2>1, <3>1 DEF SyncInv, RequestsWait
    <3>3. chan'[<<p[2], p[1]>>] = chan[<<p[2], p[1]>>]
      <4>1. PICK q \in Pairs : q = <<p[2], p[1]>> /\ {q[1], q[2]} = {p[1], p[2]}
        BY PairFacts
      <4> QED BY <1>5, <3>1, <4>1
    <3> QED BY <3>2, <3>3 DEF Wait, In
  <2> QED BY <2>1 DEF RequestsWait
<1> QED BY <1>4, <1>6, <1>7, <1>8 DEF SyncInv

LEMMA DropKeeps ==
  ASSUME SyncInv, NEW n, NEW m, Drop(n, m)
  PROVE  SyncInv'
<1>1. Close({{n, m}}) /\ UNCHANGED <<setup, known, tip, saved>>
  BY DEF Drop
<1>2. /\ known' \in [Nodes -> SUBSET Blocks] /\ tip' \in [Nodes -> Blocks]
      /\ saved' \in [Nodes -> Blocks] /\ KnownClosed'
  BY <1>1 DEF SyncInv, NetTypes, KnownClosed
<1> QED BY <1>1, <1>2, CloseKeeps

\* The saved chain is a path, and what was known beyond it is forgotten
\* together with the connections on which it was announced.
LEMMA CrashKeeps ==
  ASSUME SyncInv, NEW n \in Nodes, Crash(n)
  PROVE  SyncInv'
<1>1. PICK gone : gone = {{n, m} : m \in Peers(n)}
  OBVIOUS
<1>2. /\ Close(gone) /\ UNCHANGED <<setup, saved>>
      /\ known' = [known EXCEPT ![n] = Range(PathTo[saved[n]])]
      /\ tip' = [tip EXCEPT ![n] = saved[n]]
  BY <1>1 DEF Crash
<1>3. /\ known \in [Nodes -> SUBSET Blocks] /\ tip \in [Nodes -> Blocks]
      /\ saved \in [Nodes -> Blocks]
  BY DEF SyncInv, NetTypes
<1>4. PICK s \in Blocks : s = saved[n]
  BY <1>3
<1>5. /\ Range(PathTo[s]) \subseteq Blocks /\ s \in Range(PathTo[s])
      /\ \A y \in Range(PathTo[s]) : Range(PathTo[y]) \subseteq Range(PathTo[s])
  BY PathSet
<1>6. /\ known' \in [Nodes -> SUBSET Blocks] /\ tip' \in [Nodes -> Blocks]
      /\ saved' \in [Nodes -> Blocks]
      /\ known'[n] = Range(PathTo[s]) /\ tip'[n] = s
      /\ \A k \in Nodes \ {n} : known'[k] = known[k] /\ tip'[k] = tip[k]
  BY <1>2, <1>3, <1>4, <1>5
<1>7. KnownClosed'
  <2>1. ASSUME NEW k \in Nodes
        PROVE  tip'[k] \in known'[k] /\ \A b \in known'[k] : Range(PathTo[b]) \subseteq known'[k]
    <3>1. CASE k = n
      BY <1>5, <1>6, <3>1
    <3>2. CASE k # n
      BY <1>6, <3>2 DEF SyncInv, KnownClosed
    <3> QED BY <3>1, <3>2
  <2> QED BY <2>1 DEF KnownClosed
<1>8. ASSUME NEW p \in Pairs, {p[1], p[2]} \in links \ gone
      PROVE  known'[p[1]] = known[p[1]] /\ known'[p[2]] = known[p[2]]
  <2>1. p[1] \in Nodes /\ p[2] \in Nodes /\ {p[2], p[1]} = {p[1], p[2]}
    BY PairFacts
  <2>2. p[1] # n /\ p[2] # n
    BY <1>1, <1>8, <2>1 DEF Peers
  <2> QED BY <1>6, <2>1, <2>2
<1> QED BY <1>2, <1>6, <1>7, <1>8, CloseKeeps

\* The first message of a connection is a greeting, on either side.
LEMMA ConnectKeeps ==
  ASSUME SyncInv, NEW n, NEW m, Ends(n, m), Connect(n, m)
  PROVE  SyncInv'
<1>1. /\ {n, m} \notin links /\ links' = links \cup {{n, m}}
      /\ chan' = [chan EXCEPT ![<<n, m>>] = <<Hello(n)>>, ![<<m, n>>] = <<Hello(m)>>]
      /\ UNCHANGED <<setup, known, tip, requested, saved>>
  BY DEF Connect
<1>2. /\ <<n, m>> \in Pairs /\ <<m, n>> \in Pairs /\ n \in Nodes /\ m \in Nodes
      /\ {m, n} = {n, m}
  BY DEF Ends
<1>3. ASSUME NEW k \in Nodes
      PROVE  Hello(k) \in Messages /\ \A p : Sound(Hello(k), p, known')
  <2>1. tip[k] \in Blocks /\ Height(k) \in Int
    <3>1. tip[k] \in Blocks
      BY DEF SyncInv, NetTypes
    <3>2. Len(PathTo[tip[k]]) \in Nat
      BY <3>1, PathFacts
    <3> QED BY <3>1, <3>2 DEF Height, Active
  <2>2. Hello(k) \in [type : {"Hello"}, height : Int, tip : Blocks] /\ Hello(k).type = "Hello"
    BY <2>1 DEF Hello
  <2> QED BY <2>2 DEF Messages, Sound
<1>4. PICK hn \in Messages, hm \in Messages : hn = Hello(n) /\ hm = Hello(m)
  BY <1>2, <1>3
<1>5. PICK cn \in Seq(Messages), cm \in Seq(Messages) : cn = <<hn>> /\ cm = <<hm>>
  <2>1. <<hn>> \in Seq(Messages) /\ <<hm>> \in Seq(Messages)
    BY ONLY hn \in Messages, hm \in Messages
  <2> QED BY ONLY <2>1
<1>6. chan \in [Pairs -> Seq(Messages)]
  BY DEF SyncInv, NetTypes
<1>7. chan' = [chan EXCEPT ![<<n, m>>] = cn, ![<<m, n>>] = cm]
  BY <1>1, <1>4, <1>5
<1>8. /\ chan' \in [Pairs -> Seq(Messages)]
      /\ \A p \in Pairs : p # <<n, m>> /\ p # <<m, n>> => chan'[p] = chan[p]
      /\ \A p \in Pairs : p = <<n, m>> \/ p = <<m, n>> => chan'[p] \in {cn, cm}
  BY ONLY <1>2, <1>6, <1>7, cn \in Seq(Messages), cm \in Seq(Messages)
<1>9. NetTypes' /\ KnownClosed'
  <2>1. links' \subseteq Topology
    BY <1>1 DEF SyncInv, NetTypes, Ends
  <2> QED BY <1>1, <1>8, <2>1 DEF SyncInv, NetTypes, KnownClosed
<1>10. ASSUME NEW p \in Pairs, p = <<n, m>> \/ p = <<m, n>>
       PROVE  {p[1], p[2]} = {n, m} /\ chan[p] = <<>> /\ requested[p] = {}
  <2>1. {p[1], p[2]} = {n, m}
    BY ONLY <1>2, <1>10
  <2> QED BY <1>1, <2>1 DEF SyncInv, LinksOnly
<1>11. MessagesSound'
  <2>1. ASSUME NEW p \in Pairs, NEW x \in In(p)' PROVE Sound(x, p, known')
    <3>1. CASE p = <<n, m>> \/ p = <<m, n>>
      <4>1. Range(chan'[p]) \subseteq {hn, hm}
        BY <1>5, <1>8, <3>1, RangeOne
      <4>2. x \in {hn, hm}
        BY <2>1, <4>1 DEF In
      <4> QED BY <1>2, <1>3, <1>4, <4>2
    <3>2. CASE ~ (p = <<n, m>> \/ p = <<m, n>>)
      BY <1>1, <1>8, <2>1, <3>2 DEF SyncInv, MessagesSound, In
    <3> QED BY <3>1, <3>2
  <2> QED BY <2>1 DEF MessagesSound
<1>12. LinksOnly'
  <2>1. ASSUME NEW p \in Pairs, {p[1], p[2]} \notin links' PROVE chan'[p] = <<>> /\ requested'[p] = {}
    <3>1. ~ (p = <<n, m>> \/ p = <<m, n>>)
      BY <1>1, <1>10, <2>1
    <3> QED BY <1>1, <1>8, <2>1, <3>1 DEF SyncInv, LinksOnly
  <2> QED BY <2>1 DEF LinksOnly
<1>13. RequestsWait'
  <2>1. ASSUME NEW p \in Pairs, NEW b \in requested'[p] PROVE Wait(p, b)'
    <3>1. ~ (p = <<n, m>> \/ p = <<m, n>>) /\ b \in requested[p]
      BY <1>1, <1>10, <2>1
    <3>2. PICK q \in Pairs : q = <<p[2], p[1]>>
      BY PairFacts
    <3>3. p = <<p[1], p[2]>>
      BY PairFacts
    <3>4. q # <<n, m>> /\ q # <<m, n>>
      BY <3>1, <3>2, <3>3
    <3>5. chan'[p] = chan[p] /\ chan'[q] = chan[q]
      BY <1>8, <3>1, <3>4
    <3>6. Wait(p, b)
      BY <3>1 DEF SyncInv, RequestsWait
    <3> QED BY <3>2, <3>5, <3>6 DEF Wait, In
  <2> QED BY <2>1 DEF RequestsWait
<1> QED BY <1>9, <1>11, <1>12, <1>13 DEF SyncInv

LEMMA SyncInitially ==
  SyncInit => SyncInv
<1> SUFFICES ASSUME SyncInit PROVE SyncInv
  OBVIOUS
<1>1. /\ setup \in Setups /\ setup.start \in [Nodes -> Blocks]
      /\ known = [n \in Nodes |-> Range(PathTo[setup.start[n]])]
      /\ tip = setup.start /\ saved = setup.start /\ links = {}
      /\ chan = [p \in Pairs |-> <<>>] /\ requested = [p \in Pairs |-> {}]
  BY SyncAssumption DEF SyncInit
<1>2. ASSUME NEW n \in Nodes
      PROVE  /\ known[n] \subseteq Blocks /\ tip[n] \in known[n]
             /\ \A b \in known[n] : Range(PathTo[b]) \subseteq known[n]
  <2>1. PICK s \in Blocks : s = setup.start[n]
    BY <1>1
  <2>2. /\ Range(PathTo[s]) \subseteq Blocks /\ s \in Range(PathTo[s])
        /\ \A y \in Range(PathTo[s]) : Range(PathTo[y]) \subseteq Range(PathTo[s])
    BY PathSet
  <2> QED BY <1>1, <2>1, <2>2
<1>3. \A p \in Pairs : chan[p] = <<>> /\ requested[p] = {} /\ In(p) = {}
  BY <1>1, RangeOne DEF In
<1>4. NetTypes
  <2>1. PICK none \in Seq(Messages) : none = <<>>
    <3>1. \A S : <<>> \in Seq(S)
      BY ONLY TRUE
    <3> QED BY ONLY <3>1
  <2>2. chan \in [Pairs -> Seq(Messages)]
    BY ONLY <1>1, <2>1, none \in Seq(Messages)
  <2> QED BY <1>1, <1>2, <2>2 DEF NetTypes
<1> QED BY <1>2, <1>3, <1>4 DEF SyncInv, KnownClosed, LinksOnly, MessagesSound, RequestsWait

-----------------------------------------------------------------------------
(***************************************************************************)
(* Transactions.                                                           *)
(***************************************************************************)
\* broadcast sends to the peers of a node.
LEMMA GossipType ==
  ASSUME NEW n \in Nodes, NEW t \in Txs, NEW from
  PROVE  /\ Gossip(n, t, from) \in [Pairs -> Seq(Messages)]
         /\ \A p \in Pairs : Gossip(n, t, from)[p] # <<>> => {p[1], p[2]} \in links
         /\ \A p \in Pairs : p[1] = n /\ p[2] \in Peers(n) \ from =>
               InvTx(t) \in Range(Gossip(n, t, from)[p])
         /\ \A p \in Pairs : \A x \in Range(Gossip(n, t, from)[p]) : \A have : Sound(x, p, have) /\ x = InvTx(t)
<1>1. PICK x0 \in Messages : x0 = InvTx(t)
  BY MessageType
<1>2. PICK z \in Seq(Messages), o \in Seq(Messages) : z = <<>> /\ o = <<x0>>
  <2>1. <<x0>> \in Seq(Messages) /\ \A S : <<>> \in Seq(S)
    BY ONLY x0 \in Messages
  <2> QED BY ONLY <2>1
<1>3. PICK A : A = Gossip(n, t, from)
  OBVIOUS
<1>4. A = [p \in Pairs |-> IF p[1] = n /\ p[2] \in Peers(n) \ from THEN o ELSE z]
  BY <1>1, <1>2, <1>3 DEF Gossip
<1>5. A \in [Pairs -> Seq(Messages)]
  BY ONLY <1>4, z \in Seq(Messages), o \in Seq(Messages)
<1>6. ASSUME NEW p \in Pairs
      PROVE  /\ A[p] = z \/ (A[p] = o /\ p[1] = n /\ p[2] \in Peers(n))
             /\ p[1] = n /\ p[2] \in Peers(n) \ from => A[p] = o
  BY ONLY <1>4, p \in Pairs
<1>7. Range(z) = {} /\ Range(o) = {x0}
  BY ONLY <1>2, RangeOne
<1>8. ASSUME NEW p \in Pairs, A[p] # <<>> PROVE {p[1], p[2]} \in links
  <2>1. p[1] = n /\ p[2] \in Peers(n)
    BY ONLY <1>2, <1>6, <1>8, p \in Pairs
  <2> QED BY ONLY <2>1 DEF Peers
<1>9. \A p \in Pairs : p[1] = n /\ p[2] \in Peers(n) \ from => x0 \in Range(A[p])
  BY ONLY <1>6, <1>7
<1>10. \A p \in Pairs : \A x \in Range(A[p]) : x = x0
  BY ONLY <1>6, <1>7
<1>11. \A p : \A have : Sound(x0, p, have)
  BY <1>1 DEF Sound, InvTx
<1> QED BY <1>1, <1>3, <1>5, <1>8, <1>9, <1>10, <1>11

\* Transaction messages need nothing of their receivers.
LEMMA TxSound ==
  ASSUME NEW t \in Txs
  PROVE  /\ \A p : \A have : Sound(InvTx(t), p, have) /\ Sound(GetTx(t), p, have) /\ Sound(Tx(t), p, have)
         /\ InvTx(t).type = "InvTx" /\ GetTx(t).type = "GetTx" /\ Tx(t).type = "Tx"
BY DEF Sound, InvTx, GetTx, Tx

LEMMA SubmitKeeps ==
  ASSUME SyncInv, NEW n \in Nodes, NEW t \in Txs, SubmitTx(n, t)
  PROVE  /\ SyncInv' /\ \A p \in Pairs : In(p) \subseteq In(p)'
         /\ \A p \in Pairs : p[1] = n /\ p[2] \in Peers(n) => InvTx(t) \in In(p)'
<1>1. PICK A \in [Pairs -> Seq(Messages)] :
         /\ A = Gossip(n, t, {})
         /\ \A p \in Pairs : A[p] # <<>> => {p[1], p[2]} \in links
         /\ \A p \in Pairs : p[1] = n /\ p[2] \in Peers(n) => InvTx(t) \in Range(A[p])
         /\ \A p \in Pairs : \A x \in Range(A[p]) : \A have : Sound(x, p, have)
  <2>1. PICK A : A = Gossip(n, t, {})
    OBVIOUS
  <2> QED BY <2>1, GossipType
<1>2. /\ chan' = [p \in Pairs |-> chan[p] \o A[p]]
      /\ UNCHANGED <<setup, links, requested>> /\ UNCHANGED <<known, tip, saved>>
  BY <1>1 DEF SubmitTx
<1>3. /\ known' \in [Nodes -> SUBSET Blocks] /\ tip' \in [Nodes -> Blocks]
      /\ saved' \in [Nodes -> Blocks] /\ KnownClosed'
      /\ \A k \in Nodes : known[k] \subseteq known'[k]
  BY <1>2 DEF SyncInv, NetTypes, KnownClosed
<1>4. \A p \in Pairs : \A x \in Range(A[p]) : Sound(x, p, known')
  BY <1>1
<1>5. SyncInv' /\ \A p \in Pairs : In(p)' = In(p) \cup Range(A[p])
  BY <1>1, <1>2, <1>3, <1>4, QueueKeeps
<1> QED BY <1>1, <1>5

\* An offer is asked for unless the receiver holds the transaction.
LEMMA InvTxKeeps ==
  ASSUME SyncInv, NEW n, NEW m, Ends(n, m), OnInvTx(n, m)
  PROVE  /\ SyncInv' /\ OthersStay(n, m)
         /\ \E t \in Txs : /\ Msg(n, m) = InvTx(t)
                           /\ t \in pool[n] \/ GetTx(t) \in In(<<n, m>>)'
<1>1. /\ m \in Peers(n) /\ chan[<<m, n>>] # <<>> /\ Msg(n, m).type = "InvTx"
      /\ Msg(n, m) \in Messages
  BY TakesMessage DEF OnInvTx
<1>2. PICK t \in Txs : t = Msg(n, m).tx /\ Msg(n, m) = InvTx(t)
  BY <1>1, MessageParts
<1>3. PICK ask \in Messages : ask = GetTx(t)
  BY MessageType
<1>4. <<ask>> \in Seq(Messages) /\ <<>> \in Seq(Messages) /\ Range(<<ask>>) = {ask}
  BY RangeOne
<1>5. UNCHANGED <<setup, known, tip, links, requested, saved>>
  BY DEF OnInvTx
<1>6. CASE t \in pool[n]
  <2>1. chan' = Deliver(<<m, n>>, Silence)
    BY <1>2, <1>6 DEF OnInvTx
  <2>2. PICK ms \in Seq(Messages) : ms = <<>> /\ Range(ms) = {}
    BY <1>4, RangeOne
  <2>3. Answers(n, m, ms) /\ \A x \in Range(ms) : Sound(x, <<n, m>>, known)
    BY <2>1, <2>2 DEF Answers
  <2>4. Msg(n, m).type # "Block" /\ Msg(n, m).type # "GetData"
    BY <1>1
  <2>5. SyncInv' /\ OthersStay(n, m)
    BY <1>1, <1>5, <2>3, <2>4, AnswerKeeps
  <2> QED BY <1>2, <1>6, <2>5
<1>7. CASE t \notin pool[n]
  <2>1. chan' = Deliver(<<m, n>>, Reply(n, m, <<ask>>))
    BY <1>2, <1>3, <1>7 DEF OnInvTx
  <2>2. PICK ms \in Seq(Messages) : ms = <<ask>> /\ Range(ms) = {ask}
    BY <1>4
  <2>3. Answers(n, m, ms) /\ \A x \in Range(ms) : Sound(x, <<n, m>>, known)
    BY <1>3, <2>1, <2>2, TxSound DEF Answers
  <2>4. Msg(n, m).type # "Block" /\ Msg(n, m).type # "GetData"
    BY <1>1
  <2>5. SyncInv' /\ OthersStay(n, m)
    BY <1>1, <1>5, <2>3, <2>4, AnswerKeeps
  <2>6. ask \in In(<<n, m>>)'
    BY <1>1, <2>1, <2>2, ReplySent DEF SyncInv
  <2> QED BY <1>2, <1>3, <2>5, <2>6
<1> QED BY <1>6, <1>7

\* A request is answered if the transaction is still held.
LEMMA GetTxKeeps ==
  ASSUME SyncInv, NEW n, NEW m, Ends(n, m), OnGetTx(n, m)
  PROVE  /\ SyncInv' /\ OthersStay(n, m)
         /\ \E t \in Txs : /\ Msg(n, m) = GetTx(t)
                           /\ t \notin pool[n] \/ Tx(t) \in In(<<n, m>>)'
<1>1. /\ m \in Peers(n) /\ chan[<<m, n>>] # <<>> /\ Msg(n, m).type = "GetTx"
      /\ Msg(n, m) \in Messages
  BY TakesMessage DEF OnGetTx
<1>2. PICK t \in Txs : t = Msg(n, m).tx /\ Msg(n, m) = GetTx(t)
  BY <1>1, MessageParts
<1>3. PICK answer \in Messages : answer = Tx(t)
  BY MessageType
<1>4. <<answer>> \in Seq(Messages) /\ <<>> \in Seq(Messages) /\ Range(<<answer>>) = {answer}
  BY RangeOne
<1>5. UNCHANGED <<setup, known, tip, links, requested, saved>>
  BY DEF OnGetTx
<1>6. CASE t \notin pool[n]
  <2>1. chan' = Deliver(<<m, n>>, Silence)
    BY <1>2, <1>6 DEF OnGetTx
  <2>2. PICK ms \in Seq(Messages) : ms = <<>> /\ Range(ms) = {}
    BY <1>4, RangeOne
  <2>3. Answers(n, m, ms) /\ \A x \in Range(ms) : Sound(x, <<n, m>>, known)
    BY <2>1, <2>2 DEF Answers
  <2>4. Msg(n, m).type # "Block" /\ Msg(n, m).type # "GetData"
    BY <1>1
  <2>5. SyncInv' /\ OthersStay(n, m)
    BY <1>1, <1>5, <2>3, <2>4, AnswerKeeps
  <2> QED BY <1>2, <1>6, <2>5
<1>7. CASE t \in pool[n]
  <2>1. chan' = Deliver(<<m, n>>, Reply(n, m, <<answer>>))
    BY <1>2, <1>3, <1>7 DEF OnGetTx
  <2>2. PICK ms \in Seq(Messages) : ms = <<answer>> /\ Range(ms) = {answer}
    BY <1>4
  <2>3. Answers(n, m, ms) /\ \A x \in Range(ms) : Sound(x, <<n, m>>, known)
    BY <1>3, <2>1, <2>2, TxSound DEF Answers
  <2>4. Msg(n, m).type # "Block" /\ Msg(n, m).type # "GetData"
    BY <1>1
  <2>5. SyncInv' /\ OthersStay(n, m)
    BY <1>1, <1>5, <2>3, <2>4, AnswerKeeps
  <2>6. answer \in In(<<n, m>>)'
    BY <1>1, <2>1, <2>2, ReplySent DEF SyncInv
  <2> QED BY <1>2, <1>3, <2>5, <2>6
<1> QED BY <1>6, <1>7

LEMMA OnTxKeeps ==
  ASSUME SyncInv, NEW n, NEW m, Ends(n, m), OnTx(n, m)
  PROVE  /\ SyncInv' /\ OthersStay(n, m)
         /\ \E t \in Txs :
               /\ Msg(n, m) = Tx(t) /\ t = Msg(n, m).tx
               /\ Verdict(n, t) = "ok" =>
                    \A p \in Pairs : p[1] = n /\ p[2] \in Peers(n) \ {m} => InvTx(t) \in In(p)'
<1>1. /\ m \in Peers(n) /\ chan[<<m, n>>] # <<>> /\ Msg(n, m).type = "Tx"
      /\ Msg(n, m) \in Messages
  BY TakesMessage DEF OnTx
<1>2. PICK t \in Txs : t = Msg(n, m).tx /\ Msg(n, m) = Tx(t)
  BY <1>1, MessageParts
<1>3. n \in Nodes /\ <<m, n>> \in Pairs
  BY DEF Ends
<1>4. PICK none \in Seq(Messages) : none = <<>>
  <2>1. \A S : <<>> \in Seq(S)
    BY ONLY TRUE
  <2> QED BY ONLY <2>1
<1>5. PICK out \in [Pairs -> Seq(Messages)] :
         /\ chan' = Deliver(<<m, n>>, out)
         /\ \A p \in Pairs : out[p] # <<>> => {p[1], p[2]} \in links
         /\ Verdict(n, t) = "ok" =>
              \A p \in Pairs : p[1] = n /\ p[2] \in Peers(n) \ {m} => InvTx(t) \in Range(out[p])
         /\ \A p \in Pairs : \A x \in Range(out[p]) : \A have : Sound(x, p, have)
  <2>1. CASE Verdict(n, t) = "ok"
    <3>1. PICK A : A = Gossip(n, t, {m})
      OBVIOUS
    <3>2. chan' = Deliver(<<m, n>>, A)
      BY <1>2, <2>1, <3>1 DEF OnTx
    <3>3. /\ A \in [Pairs -> Seq(Messages)]
          /\ \A p \in Pairs : A[p] # <<>> => {p[1], p[2]} \in links
          /\ \A p \in Pairs : p[1] = n /\ p[2] \in Peers(n) \ {m} => InvTx(t) \in Range(A[p])
          /\ \A p \in Pairs : \A x \in Range(A[p]) : \A have : Sound(x, p, have)
      BY <1>3, <3>1, GossipType
    <3> QED BY ONLY <3>2, <3>3
  <2>2. CASE Verdict(n, t) # "ok"
    <3>1. PICK A : A = Silence
      OBVIOUS
    <3>2. A \in [Pairs -> Seq(Messages)] /\ \A p \in Pairs : A[p] = <<>>
      BY <1>4, <3>1, ReplyType
    <3>3. chan' = Deliver(<<m, n>>, A)
      BY <1>2, <2>2, <3>1 DEF OnTx
    <3> QED BY ONLY <2>2, <3>2, <3>3, RangeOne
  <2> QED BY <2>1, <2>2
<1>6. UNCHANGED <<setup, links>> /\ UNCHANGED <<known, tip, saved, requested>>
  BY DEF OnTx
<1>7. /\ known' \in [Nodes -> SUBSET Blocks] /\ tip' \in [Nodes -> Blocks]
      /\ saved' \in [Nodes -> Blocks] /\ KnownClosed'
      /\ requested' \in [Pairs -> SUBSET Blocks]
      /\ \A k \in Nodes : known[k] \subseteq known'[k]
  BY <1>6 DEF SyncInv, NetTypes, KnownClosed
<1>8. \A b : Msg(n, m) # Block(b)
  BY <1>1 DEF Block
<1>9. /\ \A p \in Pairs : p # <<n, m>> => requested'[p] = requested[p]
      /\ \A b \in requested'[<<n, m>>] :
            \/ \E x \in Range(out[<<n, m>>]) : x.type = "GetData" /\ b \in Range(x.blocks)
            \/ b \in requested[<<n, m>>] /\ Msg(n, m) # Block(b)
      /\ \A p \in Pairs : \A x \in Range(out[p]) : Sound(x, p, known')
      /\ Msg(n, m).type = "GetData" =>
            \A b \in Range(Msg(n, m).blocks) : Block(b) \in Range(out[<<n, m>>])
  BY <1>1, <1>5, <1>6, <1>8
<1>10. SyncInv' /\ OthersStay(n, m)
  BY <1>1, <1>5, <1>6, <1>7, <1>9, HandlerKeeps
<1>11. \A p \in Pairs : Range(out[p]) \subseteq In(p)'
  BY <1>1, <1>3, <1>5, Delivered DEF SyncInv, NetTypes
<1> QED BY <1>2, <1>5, <1>10, <1>11

\* The messages that bring a transaction across a link.
TxMessages(t) == {InvTx(t), GetTx(t), Tx(t)}

LEMMA OfferFacts ==
  ASSUME RelayInv, NEW p \in Pairs
  PROVE  /\ {p[1], p[2]} \in Topology /\ {p[1], p[2]} \subseteq Nodes /\ p[1] \in Nodes /\ p[2] \in Nodes
         /\ <<p[2], p[1]>> \in Pairs /\ p[1] # p[2] /\ p = <<p[1], p[2]>>
         /\ \A t \in offered[{p[1], p[2]}] :
              /\ t \in Txs /\ {p[1], p[2]} \in links
              /\ t \in pool[p[1]] => Settled(p, t)
              /\ t \in pool[p[1]] \/ t \in pool[p[2]]
<1>1. /\ {p[1], p[2]} \in Topology /\ p[1] \in Nodes /\ p[2] \in Nodes
      /\ <<p[2], p[1]>> \in Pairs /\ p[1] # p[2] /\ p = <<p[1], p[2]>>
  BY PairFacts
<1>2. ASSUME NEW t \in offered[{p[1], p[2]}]
      PROVE  /\ t \in Txs /\ {p[1], p[2]} \in links
             /\ t \in pool[p[1]] => Settled(p, t)
             /\ t \in pool[p[1]] \/ t \in pool[p[2]]
  <2>1. t \in Txs
    BY <1>1, <1>2 DEF RelayInv
  <2>2. {p[1], p[2]} \in links /\ \E n \in {p[1], p[2]} : t \in pool[n]
    BY <1>1, <1>2 DEF RelayInv, OfferHeld
  <2>3. t \in pool[p[1]] => Settled(p, t)
    BY <1>2 DEF RelayInv, OffersSettle
  <2> QED BY <2>1, <2>2, <2>3
<1> QED BY <1>1, <1>2

\* Pools and offers that do not change, while one message at most is replaced
\* by the next one of the exchange.
LEMMA SameOffers ==
  ASSUME RelayInv, UNCHANGED <<pool, offered>>, links' = links,
         \A p \in Pairs : \A t \in Txs : Settled(p, t) /\ t \in pool[p[1]] => Settled(p, t)'
  PROVE  RelayInv'
<1>1. OfferHeld'
  BY DEF RelayInv, OfferHeld
<1>2. OffersSettle'
  <2>1. ASSUME NEW p \in Pairs, NEW t \in offered'[{p[1], p[2]}] \cap pool'[p[1]]
        PROVE  Settled(p, t)'
    <3>1. t \in offered[{p[1], p[2]}] /\ t \in pool[p[1]]
      BY <2>1
    <3>2. t \in Txs /\ Settled(p, t)
      BY <3>1, OfferFacts
    <3> QED BY <3>1, <3>2
  <2> QED BY <2>1 DEF OffersSettle
<1> QED BY <1>1, <1>2 DEF RelayInv

\* Pools follow the tips; what a drop makes uncertain is no longer an offer.
LEMMA FollowKeeps ==
  ASSUME RelayInv, PoolsFollowTips, links' = links,
         \A p \in Pairs : \A t \in Txs : \A x \in TxMessages(t) : x \in In(p) => x \in In(p)'
  PROVE  RelayInv'
<1>1. PICK D : D = [n \in Nodes |-> IF tip'[n] = tip[n] THEN {}
                                   ELSE {t \in pool[n] : ~ValidAt(tip'[n], t)}]
  OBVIOUS
<1> DEFINE void(n) == {t \in Txs : ({t} \cup Rivals(t)) \cap D[n] # {}}
<1>2. /\ pool' = [n \in Nodes |-> pool[n] \ D[n]]
      /\ offered' = [l \in Topology |-> offered[l] \ UNION {void(n) : n \in l}]
  BY <1>1 DEF PoolsFollowTips
<1>3. pool \in [Nodes -> SUBSET Txs] /\ offered \in [Topology -> SUBSET Txs]
  BY DEF RelayInv
<1>4. pool' \in [Nodes -> SUBSET Txs] /\ offered' \in [Topology -> SUBSET Txs]
  <2> HIDE DEF void
  <2> QED BY <1>2, <1>3
<1>5. ASSUME NEW l \in Topology, NEW t \in offered'[l], NEW n \in l
      PROVE  /\ t \in offered[l] /\ t \in Txs
             /\ ({t} \cup Rivals(t)) \cap D[n] = {}
  <2>1. t \in offered[l] /\ t \notin UNION {void(k) : k \in l} /\ t \in Txs
    <3> HIDE DEF void
    <3> QED BY <1>2, <1>3, <1>5
  <2>2. t \notin void(n)
    <3> HIDE DEF void
    <3> QED BY <2>1
  <2> QED BY <2>1, <2>2
<1>6. OfferHeld'
  <2>1. ASSUME NEW l \in Topology, NEW t \in offered'[l]
        PROVE  l \in links' /\ \E n \in l : t \in pool'[n]
    <3>1. l \subseteq Nodes /\ l # {}
      <4>1. l \subseteq Nodes /\ Cardinality(l) = 2
        BY SyncAssumption
      <4>2. Cardinality({}) = 0
        BY FS_EmptySet
      <4> QED BY ONLY <4>1, <4>2
    <3>2. t \in offered[l]
      BY <1>5, <2>1, <3>1
    <3>3. l \in links /\ \E n \in l : t \in pool[n]
      BY <3>2 DEF RelayInv, OfferHeld
    <3>4. PICK n \in l : t \in pool[n]
      BY <3>3
    <3>5. t \notin D[n]
      BY <1>5, <2>1
    <3> QED BY <1>2, <3>1, <3>3, <3>4, <3>5
  <2> QED BY <2>1 DEF OfferHeld
<1>7. OffersSettle'
  <2>1. ASSUME NEW p \in Pairs, NEW t \in offered'[{p[1], p[2]}] \cap pool'[p[1]]
        PROVE  Settled(p, t)'
    <3>1. /\ {p[1], p[2]} \in Topology /\ p[1] \in Nodes /\ p[2] \in Nodes
          /\ <<p[2], p[1]>> \in Pairs
      BY OfferFacts
    <3>2. /\ t \in offered[{p[1], p[2]}] /\ t \in Txs
          /\ ({t} \cup Rivals(t)) \cap D[p[2]] = {}
      BY <1>5, <2>1, <3>1
    <3>3. t \in pool[p[1]]
      BY <1>2, <2>1, <3>1
    <3>4. Settled(p, t)
      BY <3>2, <3>3, OfferFacts
    <3>5. ({t} \cup Rivals(t)) \cap pool[p[2]] # {} => ({t} \cup Rivals(t)) \cap pool'[p[2]] # {}
      BY <1>2, <3>1, <3>2
    <3> QED BY <3>1, <3>2, <3>4, <3>5 DEF Settled, TxMessages
  <2> QED BY <2>1 DEF OffersSettle
<1> QED BY <1>4, <1>6, <1>7 DEF RelayInv

\* A node admits a transaction and offers it to its peers, but for one that
\* holds it when an offer of it stands on their link.
LEMMA AdmitKeeps ==
  ASSUME RelayInv, NEW n \in Nodes, NEW t \in Txs, NEW from,
         t \notin pool[n], pool' = [pool EXCEPT ![n] = pool[n] \cup {t}],
         offered' = Offer(n, t, from), links' = links,
         \A p \in Pairs : p[1] = n /\ p[2] \in Peers(n) \ from => InvTx(t) \in In(p)',
         \A p \in Pairs : \A u \in Txs : \A x \in TxMessages(u) :
            x \in In(p) => x \in In(p)' \/ (p[2] = n /\ u = t)
  PROVE  RelayInv'
<1>1. pool \in [Nodes -> SUBSET Txs] /\ offered \in [Topology -> SUBSET Txs]
  BY DEF RelayInv
<1>2. /\ pool' \in [Nodes -> SUBSET Txs] /\ t \in pool'[n]
      /\ \A k \in Nodes : pool[k] \subseteq pool'[k] /\ pool'[k] \subseteq pool[k] \cup {t}
      /\ \A k \in Nodes \ {n} : pool'[k] = pool[k]
  BY <1>1
<1>3. offered' = [l \in Topology |-> IF \E m \in Peers(n) \ from : l = {n, m}
                                    THEN offered[l] \cup {t} ELSE offered[l]]
  BY DEF Offer
<1>4. /\ offered' \in [Topology -> SUBSET Txs]
      /\ \A l \in Topology : \A u \in offered'[l] :
            u \in offered[l] \/ (u = t /\ \E m \in Peers(n) \ from : l = {n, m})
  BY <1>1, <1>3
<1>5. OfferHeld'
  <2>1. ASSUME NEW l \in Topology, NEW u \in offered'[l]
        PROVE  l \in links' /\ \E k \in l : u \in pool'[k]
    <3>1. l \subseteq Nodes
      BY SyncAssumption
    <3>2. CASE u \in offered[l]
      BY <1>2, <3>1, <3>2 DEF RelayInv, OfferHeld
    <3>3. CASE u = t /\ \E m \in Peers(n) \ from : l = {n, m}
      BY <1>2, <3>3 DEF Peers
    <3> QED BY <1>4, <2>1, <3>2, <3>3
  <2> QED BY <2>1 DEF OfferHeld
<1>6. OffersSettle'
  <2>1. ASSUME NEW p \in Pairs, NEW u \in offered'[{p[1], p[2]}] \cap pool'[p[1]]
        PROVE  Settled(p, u)'
    <3>1. /\ {p[1], p[2]} \in Topology /\ p[1] \in Nodes /\ p[2] \in Nodes
          /\ <<p[2], p[1]>> \in Pairs /\ p[1] # p[2] /\ p = <<p[1], p[2]>>
      BY OfferFacts
    <3>2. t \in pool'[p[2]] /\ u = t => Settled(p, u)'
      BY DEF Settled
    <3>3. CASE u \in offered[{p[1], p[2]}] /\ u \in pool[p[1]]
      <4>1. Settled(p, u) /\ u \in Txs
        BY <3>3, OfferFacts
      <4>2. ({u} \cup Rivals(u)) \cap pool[p[2]] # {} => ({u} \cup Rivals(u)) \cap pool'[p[2]] # {}
        BY <1>2, <3>1
      <4>3. CASE InvTx(u) \in In(p)
        <5>1. InvTx(u) \in In(p)' \/ (p[2] = n /\ u = t)
          BY <4>1, <4>3 DEF TxMessages
        <5> QED BY <1>2, <3>2, <5>1 DEF Settled
      <4>4. CASE Tx(u) \in In(p)
        <5>1. Tx(u) \in In(p)' \/ (p[2] = n /\ u = t)
          BY <4>1, <4>4 DEF TxMessages
        <5> QED BY <1>2, <3>2, <5>1 DEF Settled
      <4>5. CASE GetTx(u) \in In(<<p[2], p[1]>>)
        <5>1. PICK q \in Pairs : q = <<p[2], p[1]>> /\ q[2] = p[1]
          BY <3>1
        <5>2. GetTx(u) \in In(q)' \/ (p[1] = n /\ u = t)
          BY <4>1, <4>5, <5>1 DEF TxMessages
        <5>3. ~ (p[1] = n /\ u = t)
          BY <3>3
        <5> QED BY <5>1, <5>2, <5>3 DEF Settled
      <4> QED BY <4>1, <4>2, <4>3, <4>4, <4>5 DEF Settled
    <3>4. CASE u \in offered[{p[1], p[2]}] /\ u \notin pool[p[1]]
      <4>1. u = t /\ u \in pool[p[2]]
        BY <1>2, <2>1, <3>1, <3>4, OfferFacts
      <4> QED BY <1>2, <3>1, <3>2, <4>1
    <3>5. CASE u = t /\ \E m \in Peers(n) \ from : {p[1], p[2]} = {n, m}
      <4>1. PICK m \in Peers(n) \ from : {p[1], p[2]} = {n, m}
        BY <3>5
      <4>2. CASE p[1] = n
        <5>1. p[2] = m
          BY <3>1, <4>1, <4>2
        <5> QED BY <3>5, <4>1, <4>2, <5>1 DEF Settled
      <4>3. CASE p[1] # n
        <5>1. p[2] = n
          BY <4>1, <4>3
        <5> QED BY <1>2, <3>2, <3>5, <5>1
      <4> QED BY <4>2, <4>3
    <3> QED BY <1>4, <2>1, <3>1, <3>3, <3>4, <3>5
  <2> QED BY <2>1 DEF OffersSettle
<1> QED BY <1>2, <1>4, <1>5, <1>6 DEF RelayInv

\* The offers of connections that end are forgotten.
LEMMA EndedOffers ==
  ASSUME RelayInv, NEW gone, Close(gone),
         pool' \in [Nodes -> SUBSET Txs], offered' \in [Topology -> SUBSET Txs],
         \A l \in Topology : \/ offered'[l] = {}
                             \/ /\ offered'[l] = offered[l] /\ l \notin gone
                                /\ \A k \in l : pool'[k] = pool[k]
  PROVE  RelayInv'
<1>1. links' = links \ gone /\ chan' = [p \in Pairs |-> IF {p[1], p[2]} \in gone THEN <<>> ELSE chan[p]]
  BY DEF Close
<1>2. OfferHeld'
  <2>1. ASSUME NEW l \in Topology, NEW t \in offered'[l]
        PROVE  l \in links' /\ \E k \in l : t \in pool'[k]
    <3>1. t \in offered[l] /\ l \notin gone /\ \A k \in l : pool'[k] = pool[k]
      BY <2>1
    <3>2. l \in links /\ \E k \in l : t \in pool[k]
      BY <3>1 DEF RelayInv, OfferHeld
    <3> QED BY <1>1, <3>1, <3>2
  <2> QED BY <2>1 DEF OfferHeld
<1>3. OffersSettle'
  <2>1. ASSUME NEW p \in Pairs, NEW t \in offered'[{p[1], p[2]}] \cap pool'[p[1]]
        PROVE  Settled(p, t)'
    <3>1. PICK l \in Topology : l = {p[1], p[2]}
      BY OfferFacts
    <3>2. t \in offered[l] /\ l \notin gone /\ \A k \in l : pool'[k] = pool[k]
      BY <2>1, <3>1
    <3>3. t \in pool[p[1]] /\ pool'[p[2]] = pool[p[2]]
      BY <2>1, <3>1, <3>2
    <3>4. Settled(p, t)
      BY <3>1, <3>2, <3>3, OfferFacts
    <3>5. PICK q \in Pairs : q = <<p[2], p[1]>> /\ {q[1], q[2]} = l
      BY <3>1, PairFacts
    <3>6. chan'[p] = chan[p] /\ chan'[q] = chan[q]
      BY <1>1, <3>1, <3>2, <3>5
    <3> QED BY <3>3, <3>4, <3>5, <3>6 DEF Settled, In
  <2> QED BY <2>1 DEF OffersSettle
<1> QED BY <1>2, <1>3 DEF RelayInv

LEMMA Verdicts ==
  ASSUME NEW n, NEW t
  PROVE  /\ Verdict(n, t) = "ok" => t \notin pool[n]
         /\ Verdict(n, t) \notin {"ok", "invalid"} => ({t} \cup Rivals(t)) \cap pool[n] # {}
<1>1. CASE t \in pool[n]
  BY <1>1 DEF Verdict
<1>2. CASE t \notin pool[n] /\ Rivals(t) \cap pool[n] # {}
  BY <1>2 DEF Verdict
<1>3. CASE t \notin pool[n] /\ Rivals(t) \cap pool[n] = {}
  <2>1. Verdict(n, t) = IF ValidAt(tip[n], t) THEN "ok" ELSE "invalid"
    BY <1>3 DEF Verdict
  <2> QED BY <1>3, <2>1
<1> QED BY <1>1, <1>2, <1>3

\* The block messages of a peer leave those of transactions in their queues.
LEMMA HandleStep ==
  ASSUME SyncInv, NEW n, NEW m, Ends(n, m), Handle(n, m)
  PROVE  /\ SyncInv' /\ links' = links
         /\ \A p \in Pairs : \A t \in Txs : \A x \in TxMessages(t) : x \in In(p) => x \in In(p)'
<1>1. ASSUME NEW type \in {"Hello", "GetBlocks", "Inv", "GetData", "Block"}, Receives(n, m, type)
      PROVE  \A t \in Txs : \A x \in TxMessages(t) : x # Msg(n, m)
  <2>1. Msg(n, m).type = type
    BY <1>1 DEF Receives, Msg
  <2> QED BY <2>1, TxSound DEF TxMessages
<1> DEFINE Goal == /\ SyncInv' /\ OthersStay(n, m) /\ links' = links
                   /\ \A t \in Txs : \A x \in TxMessages(t) : x # Msg(n, m)
<1>2. Goal
  <2>1. ASSUME OnHello(n, m) PROVE Goal
    BY <1>1, <2>1, HelloKeeps DEF OnHello
  <2>2. ASSUME OnGetBlocks(n, m) PROVE Goal
    BY <1>1, <2>2, GetBlocksKeeps DEF OnGetBlocks
  <2>3. ASSUME OnInv(n, m) PROVE Goal
    BY <1>1, <2>3, InvKeeps DEF OnInv
  <2>4. ASSUME OnGetData(n, m) PROVE Goal
    BY <1>1, <2>4, GetDataKeeps DEF OnGetData
  <2>5. ASSUME OnBlock(n, m) PROVE Goal
    BY <1>1, <2>5, BlockKeeps DEF OnBlock
  <2>6. ASSUME OnOrphan(n, m) PROVE Goal
    BY <1>1, <2>6, OrphanKeeps DEF OnOrphan
  <2>7. ASSUME OnDuplicate(n, m) PROVE Goal
    BY <1>1, <2>7, DuplicateKeeps DEF OnDuplicate
  <2> QED BY <2>1, <2>2, <2>3, <2>4, <2>5, <2>6, <2>7 DEF Handle
<1> QED BY <1>2 DEF OthersStay

NetInv == SyncInv /\ RelayInv

LEMMA InvTxStep ==
  ASSUME NetInv, NEW n, NEW m, Ends(n, m), OnInvTx(n, m)
  PROVE  NetInv'
<1>1. PICK t \in Txs : Msg(n, m) = InvTx(t) /\ (t \in pool[n] \/ GetTx(t) \in In(<<n, m>>)')
  BY InvTxKeeps DEF NetInv
<1>2. SyncInv' /\ OthersStay(n, m)
  BY InvTxKeeps DEF NetInv
<1>3. UNCHANGED <<pool, offered>> /\ links' = links
  BY DEF OnInvTx, relayVars
<1>4. ASSUME NEW p \in Pairs, NEW u \in Txs, Settled(p, u) PROVE Settled(p, u)'
  <2>1. PICK q \in Pairs : q = <<p[2], p[1]>> /\ p = <<p[1], p[2]>>
    BY PairFacts
  <2>2. GetTx(u) # Msg(n, m) /\ Tx(u) # Msg(n, m)
    BY <1>1, TxSound
  <2>3. CASE InvTx(u) \in In(p) /\ p = <<m, n>> /\ InvTx(u) = Msg(n, m)
    <3>1. u = t
      BY <1>1, <2>3 DEF InvTx
    <3>2. q = <<n, m>> /\ p[2] = n
      BY <2>1, <2>3
    <3> QED BY <1>1, <1>3, <2>1, <3>1, <3>2 DEF Settled
  <2>4. CASE ~ (InvTx(u) \in In(p) /\ p = <<m, n>> /\ InvTx(u) = Msg(n, m))
    BY <1>2, <1>3, <1>4, <2>1, <2>2, <2>4 DEF Settled, OthersStay
  <2> QED BY <2>3, <2>4
<1> QED BY <1>2, <1>3, <1>4, SameOffers DEF NetInv

LEMMA GetTxStep ==
  ASSUME NetInv, NEW n, NEW m, Ends(n, m), OnGetTx(n, m)
  PROVE  NetInv'
<1>1. PICK t \in Txs : Msg(n, m) = GetTx(t) /\ (t \notin pool[n] \/ Tx(t) \in In(<<n, m>>)')
  BY GetTxKeeps DEF NetInv
<1>2. SyncInv' /\ OthersStay(n, m)
  BY GetTxKeeps DEF NetInv
<1>3. UNCHANGED <<pool, offered>> /\ links' = links
  BY DEF OnGetTx, relayVars
<1>4. ASSUME NEW p \in Pairs, NEW u \in Txs, Settled(p, u), u \in pool[p[1]] PROVE Settled(p, u)'
  <2>1. PICK q \in Pairs : q = <<p[2], p[1]>> /\ p = <<p[1], p[2]>>
    BY PairFacts
  <2>2. InvTx(u) # Msg(n, m) /\ Tx(u) # Msg(n, m)
    BY <1>1, TxSound
  <2>3. CASE GetTx(u) \in In(q) /\ q = <<m, n>> /\ GetTx(u) = Msg(n, m)
    <3>1. u = t
      BY <1>1, <2>3 DEF GetTx
    <3>2. p = <<n, m>> /\ p[1] = n
      BY <2>1, <2>3
    <3> QED BY <1>1, <1>4, <3>1, <3>2 DEF Settled
  <2>4. CASE ~ (GetTx(u) \in In(q) /\ q = <<m, n>> /\ GetTx(u) = Msg(n, m))
    BY <1>2, <1>3, <1>4, <2>1, <2>2, <2>4 DEF Settled, OthersStay
  <2> QED BY <2>3, <2>4
<1> QED BY <1>2, <1>3, <1>4, SameOffers DEF NetInv

LEMMA TxStep ==
  ASSUME NetInv, NEW n, NEW m, Ends(n, m), OnTx(n, m)
  PROVE  NetInv'
<1>1. PICK t \in Txs :
         /\ Msg(n, m) = Tx(t) /\ t = Msg(n, m).tx
         /\ Verdict(n, t) = "ok" =>
              \A p \in Pairs : p[1] = n /\ p[2] \in Peers(n) \ {m} => InvTx(t) \in In(p)'
  BY OnTxKeeps DEF NetInv
<1>2. SyncInv' /\ OthersStay(n, m)
  BY OnTxKeeps DEF NetInv
<1>3. /\ links' = links /\ Verdict(n, t) # "invalid" /\ n \in Nodes
      /\ pool' = [pool EXCEPT ![n] = IF Verdict(n, t) = "ok" THEN pool[n] \cup {t} ELSE pool[n]]
      /\ offered' = IF Verdict(n, t) = "ok" THEN Offer(n, t, {m}) ELSE offered
  BY <1>1 DEF OnTx, Ends
<1>4. ASSUME NEW u \in Txs, u # t, NEW x \in TxMessages(u) PROVE x # Msg(n, m)
  <2>1. CASE x = Tx(u)
    <3>1. Tx(u).tx = u /\ Tx(t).tx = t
      BY DEF Tx
    <3> QED BY ONLY <1>1, <1>4, <2>1, <3>1
  <2>2. CASE x # Tx(u)
    <3>1. x.type # "Tx" /\ Tx(t).type = "Tx"
      BY <2>2, TxSound DEF TxMessages
    <3> QED BY ONLY <1>1, <3>1
  <2> QED BY <2>1, <2>2
<1>5. CASE Verdict(n, t) = "ok"
  <2>1. t \notin pool[n] /\ pool' = [pool EXCEPT ![n] = pool[n] \cup {t}] /\ offered' = Offer(n, t, {m})
    BY <1>3, <1>5, Verdicts
  <2>2. ASSUME NEW p \in Pairs, NEW u \in Txs, NEW x \in TxMessages(u), x \in In(p)
        PROVE  x \in In(p)' \/ (p[2] = n /\ u = t)
    <3>1. CASE p = <<m, n>> /\ x = Msg(n, m)
      BY <1>4, <3>1
    <3>2. CASE ~ (p = <<m, n>> /\ x = Msg(n, m))
      BY <1>2, <2>2, <3>2 DEF OthersStay
    <3> QED BY <3>1, <3>2
  <2>3. \A p \in Pairs : p[1] = n /\ p[2] \in Peers(n) \ {m} => InvTx(t) \in In(p)'
    BY <1>1, <1>5
  <2> QED BY <1>2, <1>3, <2>1, <2>2, <2>3, AdmitKeeps DEF NetInv
<1>6. CASE Verdict(n, t) # "ok"
  <2>1. UNCHANGED <<pool, offered>>
    BY <1>3, <1>6 DEF NetInv, RelayInv
  <2>2. ({t} \cup Rivals(t)) \cap pool[n] # {}
    BY <1>3, <1>6, Verdicts
  <2>3. ASSUME NEW p \in Pairs, NEW u \in Txs, Settled(p, u) PROVE Settled(p, u)'
    <3>1. PICK q \in Pairs : q = <<p[2], p[1]>> /\ p = <<p[1], p[2]>>
      BY PairFacts
    <3>2. InvTx(u) # Msg(n, m) /\ GetTx(u) # Msg(n, m)
      BY <1>1, TxSound
    <3>3. CASE Tx(u) \in In(p) /\ p = <<m, n>> /\ Tx(u) = Msg(n, m)
      <4>1. u = t /\ p[2] = n
        BY <1>1, <3>3 DEF Tx
      <4> QED BY <2>1, <2>2, <4>1 DEF Settled
    <3>4. CASE ~ (Tx(u) \in In(p) /\ p = <<m, n>> /\ Tx(u) = Msg(n, m))
      BY <1>2, <2>1, <2>3, <3>1, <3>2, <3>4 DEF Settled, OthersStay
    <3> QED BY <3>3, <3>4
  <2> QED BY <1>2, <1>3, <2>1, <2>3, SameOffers DEF NetInv
<1> QED BY <1>5, <1>6

LEMMA InvalidTxStep ==
  ASSUME NetInv, NEW n, NEW m, Ends(n, m), OnInvalidTx(n, m)
  PROVE  NetInv'
<1>1. /\ Close({{n, m}}) /\ UNCHANGED setup /\ UNCHANGED <<known, tip, saved, pool>>
      /\ offered' = [offered EXCEPT ![{n, m}] = {}]
  BY DEF OnInvalidTx
<1>2. SyncInv'
  <2>1. /\ known' \in [Nodes -> SUBSET Blocks] /\ tip' \in [Nodes -> Blocks]
        /\ saved' \in [Nodes -> Blocks] /\ KnownClosed'
    BY <1>1 DEF NetInv, SyncInv, NetTypes, KnownClosed
  <2> QED BY <1>1, <2>1, CloseKeeps DEF NetInv
<1>3. RelayInv'
  <2>1. {n, m} \in Topology /\ offered \in [Topology -> SUBSET Txs] /\ pool \in [Nodes -> SUBSET Txs]
    BY DEF Ends, NetInv, RelayInv
  <2>2. /\ pool' \in [Nodes -> SUBSET Txs] /\ offered' \in [Topology -> SUBSET Txs]
        /\ \A l \in Topology : \/ offered'[l] = {}
                               \/ /\ offered'[l] = offered[l] /\ l \notin {{n, m}}
                                  /\ \A k \in l : pool'[k] = pool[k]
    BY <1>1, <2>1
  <2> QED BY <1>1, <2>2, EndedOffers DEF NetInv
<1> QED BY <1>2, <1>3 DEF NetInv

LEMMA BreakStep ==
  ASSUME NetInv, NEW n, NEW m, Ends(n, m), LinkBreaks(n, m)
  PROVE  NetInv'
<1>1. /\ Close({{n, m}}) /\ UNCHANGED pool /\ Drop(n, m)
      /\ offered' = [offered EXCEPT ![{n, m}] = {}]
  BY DEF LinkBreaks, Drop
<1>2. SyncInv'
  BY <1>1, DropKeeps DEF NetInv
<1>3. RelayInv'
  <2>1. {n, m} \in Topology /\ offered \in [Topology -> SUBSET Txs] /\ pool \in [Nodes -> SUBSET Txs]
    BY DEF Ends, NetInv, RelayInv
  <2>2. /\ pool' \in [Nodes -> SUBSET Txs] /\ offered' \in [Topology -> SUBSET Txs]
        /\ \A l \in Topology : \/ offered'[l] = {}
                               \/ /\ offered'[l] = offered[l] /\ l \notin {{n, m}}
                                  /\ \A k \in l : pool'[k] = pool[k]
    BY <1>1, <2>1
  <2> QED BY <1>1, <2>2, EndedOffers DEF NetInv
<1> QED BY <1>2, <1>3 DEF NetInv

LEMMA RestartStep ==
  ASSUME NetInv, NEW n \in Nodes, Restart(n)
  PROVE  NetInv'
<1>1. PICK gone : gone = {{n, m} : m \in Peers(n)}
  OBVIOUS
<1>2. /\ Close(gone) /\ Crash(n) /\ pool' = [pool EXCEPT ![n] = {}]
      /\ offered' = [l \in Topology |-> IF n \in l THEN {} ELSE offered[l]]
  BY <1>1 DEF Restart, Crash
<1>3. SyncInv'
  BY <1>2, CrashKeeps DEF NetInv
<1>4. RelayInv'
  <2>1. offered \in [Topology -> SUBSET Txs] /\ pool \in [Nodes -> SUBSET Txs]
    BY DEF NetInv, RelayInv
  <2>2. pool' \in [Nodes -> SUBSET Txs] /\ offered' \in [Topology -> SUBSET Txs]
    BY <1>2, <2>1
  <2>3. ASSUME NEW l \in Topology, n \notin l
        PROVE  offered'[l] = offered[l] /\ l \notin gone /\ \A k \in l : pool'[k] = pool[k]
    <3>1. l \subseteq Nodes
      BY SyncAssumption
    <3> QED BY <1>1, <1>2, <2>1, <2>3, <3>1
  <2>4. \A l \in Topology : n \in l => offered'[l] = {}
    BY <1>2
  <2> QED BY <1>2, <2>2, <2>3, <2>4, EndedOffers DEF NetInv
<1> QED BY <1>3, <1>4 DEF NetInv

LEMMA DialStep ==
  ASSUME NetInv, NEW n, NEW m, Ends(n, m), Dial(n, m)
  PROVE  NetInv'
<1>1. /\ Connect(n, m) /\ UNCHANGED <<pool, offered>> /\ {n, m} \notin links
      /\ links' = links \cup {{n, m}}
      /\ chan' = [chan EXCEPT ![<<n, m>>] = <<Hello(n)>>, ![<<m, n>>] = <<Hello(m)>>]
  BY DEF Dial, Connect, relayVars
<1>2. SyncInv'
  BY <1>1, ConnectKeeps DEF NetInv
<1>3. OfferHeld'
  BY <1>1 DEF NetInv, RelayInv, OfferHeld
<1>4. OffersSettle'
  <2>1. ASSUME NEW p \in Pairs, NEW t \in offered'[{p[1], p[2]}] \cap pool'[p[1]]
        PROVE  Settled(p, t)'
    <3>1. /\ t \in offered[{p[1], p[2]}] /\ t \in pool[p[1]] /\ {p[1], p[2]} \in links
          /\ Settled(p, t)
      BY <1>1, <2>1, OfferFacts DEF NetInv
    <3>2. PICK q \in Pairs : q = <<p[2], p[1]>> /\ {q[1], q[2]} = {p[1], p[2]}
      BY PairFacts
    <3>3. {<<n, m>>[1], <<n, m>>[2]} = {n, m} /\ {<<m, n>>[1], <<m, n>>[2]} = {n, m}
      OBVIOUS
    <3>4. p # <<n, m>> /\ p # <<m, n>>
      BY ONLY <1>1, <3>1, <3>3
    <3>5. q # <<n, m>> /\ q # <<m, n>>
      BY ONLY <1>1, <3>1, <3>2, <3>3
    <3>6. chan \in [Pairs -> Seq(Messages)]
      BY DEF NetInv, SyncInv, NetTypes
    <3>7. chan'[p] = chan[p] /\ chan'[q] = chan[q]
      BY ONLY <1>1, <3>4, <3>5, <3>6, p \in Pairs, q \in Pairs
    <3> QED BY <1>1, <3>1, <3>2, <3>7 DEF Settled, In
  <2> QED BY <2>1 DEF OffersSettle
<1> QED BY <1>1, <1>2, <1>3, <1>4 DEF NetInv, RelayInv

LEMMA SubmitStep ==
  ASSUME NetInv, NEW n \in Nodes, NEW t \in Txs, SubmitTx(n, t)
  PROVE  NetInv'
<1>1. /\ SyncInv' /\ \A p \in Pairs : In(p) \subseteq In(p)'
      /\ \A p \in Pairs : p[1] = n /\ p[2] \in Peers(n) => InvTx(t) \in In(p)'
  BY SubmitKeeps DEF NetInv
<1>2. /\ Verdict(n, t) = "ok" /\ pool' = [pool EXCEPT ![n] = pool[n] \cup {t}]
      /\ offered' = Offer(n, t, {}) /\ links' = links
  BY DEF SubmitTx
<1>3. t \notin pool[n]
  BY <1>2, Verdicts
<1>4. /\ \A p \in Pairs : p[1] = n /\ p[2] \in Peers(n) \ {} => InvTx(t) \in In(p)'
      /\ \A p \in Pairs : \A u \in Txs : \A x \in TxMessages(u) :
            x \in In(p) => x \in In(p)' \/ (p[2] = n /\ u = t)
  BY <1>1
<1> QED BY <1>1, <1>2, <1>3, <1>4, AdmitKeeps DEF NetInv

LEMMA NetInitially ==
  Init => NetInv
<1> SUFFICES ASSUME Init PROVE NetInv
  OBVIOUS
<1>1. SyncInv
  BY SyncInitially DEF Init
<1>2. pool = [n \in Nodes |-> {}] /\ offered = [l \in Topology |-> {}]
  BY DEF Init
<1>3. pool \in [Nodes -> SUBSET Txs] /\ offered \in [Topology -> SUBSET Txs]
  BY <1>2
<1>4. \A p \in Pairs : offered[{p[1], p[2]}] = {}
  BY <1>2, PairFacts
<1> QED BY <1>1, <1>2, <1>3, <1>4 DEF NetInv, RelayInv, OfferHeld, OffersSettle

LEMMA NetStep ==
  ASSUME NetInv, [Next]_vars
  PROVE  NetInv'
<1>1. ASSUME NEW n \in Nodes, NEW t \in Txs, SubmitTx(n, t) PROVE NetInv'
  BY <1>1, SubmitStep
<1>2. ASSUME NEW n \in Nodes, NEW b \in Blocks, MineFromPool(n, b) PROVE NetInv'
  <2>1. Mine(n, b) /\ PoolsFollowTips /\ links' = links
    BY <1>2 DEF MineFromPool, Mine
  <2>2. SyncInv' /\ \A p \in Pairs : In(p) \subseteq In(p)'
    BY <2>1, MineKeeps DEF NetInv
  <2> QED BY <2>1, <2>2, FollowKeeps DEF NetInv
<1>3. ASSUME NEW p \in Pairs, Receive(p[1], p[2]) PROVE NetInv'
  <2>1. PICK n, m \in Nodes : n = p[1] /\ m = p[2] /\ Ends(n, m)
    BY PairEnds, PairFacts
  <2>2. ASSUME Handle(n, m), PoolsFollowTips PROVE NetInv'
    <3>1. /\ SyncInv' /\ links' = links
          /\ \A q \in Pairs : \A t \in Txs : \A x \in TxMessages(t) : x \in In(q) => x \in In(q)'
      BY <2>1, <2>2, HandleStep DEF NetInv
    <3> QED BY <2>2, <3>1, FollowKeeps DEF NetInv
  <2>3. ASSUME OnInvTx(n, m) PROVE NetInv'
    BY <2>1, <2>3, InvTxStep
  <2>4. ASSUME OnGetTx(n, m) PROVE NetInv'
    BY <2>1, <2>4, GetTxStep
  <2>5. ASSUME OnTx(n, m) PROVE NetInv'
    BY <2>1, <2>5, TxStep
  <2>6. ASSUME OnInvalidTx(n, m) PROVE NetInv'
    BY <2>1, <2>6, InvalidTxStep
  <2> QED BY <1>3, <2>1, <2>2, <2>3, <2>4, <2>5, <2>6 DEF Receive
<1>4. ASSUME NEW p \in Pairs, Dial(p[1], p[2]) PROVE NetInv'
  BY <1>4, PairEnds, DialStep
<1>5. ASSUME NEW p \in Pairs, LinkBreaks(p[1], p[2]) PROVE NetInv'
  BY <1>5, PairEnds, BreakStep
<1>6. ASSUME UNCHANGED <<syncVars, pool, offered>> PROVE NetInv'
  <2>1. UNCHANGED <<setup, known, tip, links, chan, requested, saved>> /\ UNCHANGED <<pool, offered>>
    BY <1>6 DEF syncVars
  <2>2. NetTypes' /\ KnownClosed' /\ LinksOnly'
    BY <2>1 DEF NetInv, SyncInv, NetTypes, KnownClosed, LinksOnly
  <2>3. MessagesSound' /\ RequestsWait'
    BY <2>1 DEF NetInv, SyncInv, MessagesSound, RequestsWait, Wait, In
  <2>4. RelayInv'
    BY <2>1 DEF NetInv, RelayInv, OfferHeld, OffersSettle, Settled, In
  <2> QED BY <2>2, <2>3, <2>4 DEF NetInv, SyncInv
<1>7. ASSUME NEW n \in Nodes, Restart(n) PROVE NetInv'
  BY <1>7, RestartStep
<1>8. ASSUME NEW p \in Pairs, BanEnds(p[1], p[2]) PROVE NetInv'
  BY <1>6, <1>8 DEF BanEnds
<1>9. ASSUME UNCHANGED vars PROVE NetInv'
  BY <1>6, <1>9 DEF vars, relayVars
<1> QED BY <1>1, <1>2, <1>3, <1>4, <1>5, <1>7, <1>8, <1>9 DEF Next

-----------------------------------------------------------------------------
(***************************************************************************)
(* Theorems.                                                               *)
(***************************************************************************)
\* What the two theorems below rest on: a node is asked only for blocks it
\* has, because it announced them on the same connection and keeps them until
\* a restart, which ends that connection; every request and every offer is in
\* one of the two queues of its link or has been served.
THEOREM NetInvariant == Spec => []NetInv
<1>1. Init => NetInv
  BY NetInitially
<1>2. NetInv /\ [Next]_vars => NetInv'
  BY NetStep
<1> QED BY <1>1, <1>2, PTL DEF Spec

\* requested_blocks never holds a block nobody will send: its request or the
\* block itself is in flight, so the next batch is asked for in the end.
THEOREM RequestsAnswered == Spec => []RequestsAreInFlight
<1>1. NetInv => RequestsAreInFlight
  <2> SUFFICES ASSUME NetInv, NEW p \in Pairs, NEW b \in requested[p]
               PROVE  \/ \E g \in InFlight(p, "GetData") : b \in Range(g.blocks)
                      \/ Block(b) \in InFlight(<<p[2], p[1]>>, "Block")
    BY DEF RequestsAreInFlight
  <2>1. \A q \in Pairs : \A x \in In(q) : x \in InFlight(q, x.type)
    BY DEF In, InFlight, Range
  <2>2. Wait(p, b) /\ <<p[2], p[1]>> \in Pairs
    BY PairFacts DEF NetInv, SyncInv, RequestsWait
  <2>3. Block(b).type = "Block"
    BY DEF Block
  <2> QED BY <2>1, <2>2, <2>3 DEF Wait
<1> QED BY <1>1, NetInvariant, PTL

\* When all queues are empty, a transaction that was offered on a link and that
\* one end holds is held by the other, or a rival of it is, unless one of the
\* two dropped it or its rival since: gossip stops only when it is done.
THEOREM OffersAreShared == Spec => []OfferedIsShared
<1>1. NetInv => OfferedIsShared
  <2> SUFFICES ASSUME NetInv, Quiet, NEW n \in Nodes, NEW m \in Peers(n),
                      NEW t \in offered[{n, m}] \cap pool[n]
               PROVE  ({t} \cup Rivals(t)) \cap pool[m] # {}
    BY DEF OfferedIsShared
  <2>1. \A q \in Pairs : In(q) = {}
    BY RangeOne DEF Quiet, In
  <2>2. CASE {n, m} \in Topology
    <3>1. PICK p \in Pairs : p = <<n, m>> /\ p[1] = n /\ p[2] = m
      <4>1. m \in Nodes
        BY DEF Peers
      <4>2. <<n, m>> \in Pairs
        BY <2>2, <4>1 DEF Pairs
      <4> QED BY ONLY <4>2
    <3>2. Settled(p, t) /\ <<p[2], p[1]>> \in Pairs
      BY <3>1, OfferFacts DEF NetInv
    <3> QED BY <2>1, <3>1, <3>2 DEF Settled
  <2>3. {n, m} \in Topology
    BY DEF NetInv, SyncInv, NetTypes, Peers
  <2> QED BY <2>2, <2>3
<1> QED BY <1>1, NetInvariant, PTL

-----------------------------------------------------------------------------
(***************************************************************************)
(* Synchronisation in one round.                                           *)
(***************************************************************************)
\* A tip has the most work of the blocks its node knows, and no tip, current
\* or saved, has less than the one the node started from.
BestTips ==
    \A n \in Nodes : /\ known[n] \subseteq Existing(setup)
                     /\ {tip[n], saved[n]} \subseteq Tips(setup, n) \cap known[n]
                     /\ \A b \in known[n] : CumWork[b] <= CumWork[tip[n]]

\* What a message says was true of its sender.
Told(x, p, have) ==
    /\ x.type = "Hello" => x.height = Len(PathTo[x.tip]) - 1
    /\ x.type = "GetBlocks" =>
          \E t \in have[p[1]] \cap Tips(setup, p[1]) : x.locator = Locator(t)
    /\ x.type = "Block" => x.block \in have[p[1]]

MessagesTold == \A p \in Pairs : \A x \in In(p) : Told(x, p, known)

\* Message x makes its receiver ask for block b, or is b.
Brings(x, b) ==
    \/ x.type = "Hello" /\ x.tip = b
    \/ x.type = "Inv" /\ b \in Range(x.blocks)
    \/ x = Block(b)

\* The answer to x brings block b, if it is the tip of the receiver.
Asks(x, b) == x.type = "GetBlocks" \/ (x.type = "GetData" /\ b \in Range(x.blocks))

\* A message that ends the lag of p[1] behind p[2] is in a queue of the link.
CatchesUp(p) ==
    \/ \E x \in In(<<p[2], p[1]>>) : Brings(x, tip[p[2]])
    \/ \E x \in In(p) : Asks(x, tip[p[2]])

LagsEnd ==
    \A p \in Pairs : {p[1], p[2]} \in links /\ CumWork[tip[p[1]]] < CumWork[tip[p[2]]] =>
                        CatchesUp(p)

SpreadInv == BestTips /\ MessagesTold /\ (SyncsInOneRound(setup) => LagsEnd)

\* Work does not fall along a path.
LEMMA WorkGrows ==
  ASSUME NEW b \in Blocks
  PROVE  CumWork[b] \in Nat /\ \A y \in Range(PathTo[b]) : CumWork[y] <= CumWork[b]
<1> DEFINE Grows(c) ==
             /\ CumWork[c] \in Nat
             /\ \A y \in Range(PathTo[c]) : CumWork[y] \in Nat /\ CumWork[y] <= CumWork[c]
           T == {k \in Nat : \A c \in Blocks : Len(PathTo[c]) <= k => Grows(c)}
<1>1. \A c \in Blocks : PathTo[c] \in Seq(Blocks) /\ Len(PathTo[c]) \in Nat \ {0}
  BY PathFacts
<1>2. Grows(Genesis)
  <2>1. PathTo[Genesis] = <<Genesis>> /\ Range(<<Genesis>>) = {Genesis}
    BY PathAssumption, RangeOne
  <2>2. CumWork[Genesis] \in Nat
    BY CumWorkAssumption, BlockTreeAssumption
  <2> QED BY <2>1, <2>2
<1>3. 0 \in T
  BY <1>1
<1>4. ASSUME NEW k \in Nat, k \in T PROVE k + 1 \in T
  <2> HIDE DEF Grows
  <2> SUFFICES ASSUME NEW c \in Blocks, Len(PathTo[c]) <= k + 1, c # Genesis PROVE Grows(c)
    BY <1>2
  <2>1. PICK q \in Blocks : q = PREV[c] /\ PathTo[c] = Append(PathTo[q], c)
    BY PathAssumption
  <2>2. PICK s \in Seq(Blocks) : s = PathTo[q] /\ PathTo[c] = Append(s, c)
    BY <1>1, <2>1
  <2>3. Len(PathTo[c]) = Len(s) + 1 /\ Range(PathTo[c]) = Range(s) \cup {c}
    BY <2>2, RangeAppend
  <2>4. Len(PathTo[q]) <= k
    BY <1>1, <2>2, <2>3
  <2>5. Grows(q)
    BY <1>4, <2>4
  <2>6. /\ CumWork[q] \in Nat
        /\ \A y \in Range(s) : CumWork[y] \in Nat /\ CumWork[y] <= CumWork[q]
    BY <2>2, <2>5 DEF Grows
  <2>7. PICK w \in Nat : w = BLOCK_WORK[c] /\ CumWork[c] = CumWork[q] + w
    BY <2>1, CumWorkAssumption, BlockTreeAssumption
  <2>8. ASSUME NEW y \in Range(PathTo[c]) PROVE CumWork[y] \in Nat /\ CumWork[y] <= CumWork[c]
    <3>1. CASE y = c
      BY <2>6, <2>7, <3>1
    <3>2. CASE y # c
      BY <2>3, <2>6, <2>7, <2>8, <3>2
    <3> QED BY <3>1, <3>2
  <2> QED BY <2>6, <2>7, <2>8 DEF Grows
<1>5. Len(PathTo[b]) \in T
  <2> HIDE DEF T
  <2> QED BY <1>1, <1>3, <1>4, NatSetInduction
<1>6. Grows(b)
  <2> HIDE DEF Grows
  <2> QED BY <1>1, <1>5
<1> QED BY <1>6

\* The iterations of `locator` end.
LEMMA LocatorDef ==
  ASSUME NEW h \in Nat
  PROVE  \E f, g : /\ f = [k \in 0..h |-> IF k < LOCATOR_DENSE THEN 1 ELSE 2 * f[k - 1]]
                   /\ g = [k \in 0..h |-> IF k = 0 THEN h ELSE g[k - 1] - f[k]]
                   /\ LocatorHeights(h) = {0} \cup {x \in {g[k] : k \in 0..h} : x > 0}
<1> DEFINE Next1(f, k) == IF k < LOCATOR_DENSE THEN 1 ELSE 2 * f[k - 1]
           Fits1(f, n) == f = [k \in 0..n |-> Next1(f, k)]
           T1 == {n \in Nat : \E f : Fits1(f, n)}
<1>1. 0 \in T1
  <2>1. PICK f : f = [k \in 0..0 |-> 1]
    OBVIOUS
  <2>2. Fits1(f, 0)
    BY <2>1, SyncAssumption
  <2> QED BY <2>2
<1>2. ASSUME NEW n \in Nat, n \in T1 PROVE n + 1 \in T1
  <2>1. PICK f : Fits1(f, n)
    BY <1>2
  <2>2. PICK e : e = [k \in 0..(n + 1) |-> IF k = n + 1 THEN Next1(f, n + 1) ELSE f[k]]
    OBVIOUS
  <2>3. ASSUME NEW k \in 0..(n + 1) PROVE e[k] = Next1(e, k)
    <3>1. CASE k = n + 1
      <4>1. k - 1 = n /\ e[n] = f[n] /\ e[k] = Next1(f, n + 1)
        BY <2>2, <3>1
      <4> QED BY <3>1, <4>1
    <3>2. CASE k \in 1..n
      <4>1. k - 1 \in 0..n /\ k - 1 # n + 1 /\ k # n + 1
        BY <3>2
      <4>2. e[k - 1] = f[k - 1] /\ e[k] = f[k]
        BY <2>2, <3>2, <4>1
      <4>3. f[k] = Next1(f, k)
        BY <2>1, <3>2
      <4> QED BY <4>2, <4>3
    <3>3. CASE k = 0
      <4>1. e[k] = f[k] /\ f[k] = Next1(f, k)
        BY <2>1, <2>2, <3>3
      <4> QED BY <3>3, <4>1, SyncAssumption
    <3> QED BY <3>1, <3>2, <3>3
  <2>4. Fits1(e, n + 1)
    BY <2>2, <2>3
  <2> HIDE DEF Fits1
  <2> QED BY <2>4
<1>3. \A n \in Nat : n \in T1
  <2> HIDE DEF T1
  <2> QED BY <1>1, <1>2, NatSetInduction
<1>4. \E f : f = [k \in 0..h |-> IF k < LOCATOR_DENSE THEN 1 ELSE 2 * f[k - 1]]
  BY <1>3
<1> DEFINE step[k \in 0..h] == IF k < LOCATOR_DENSE THEN 1 ELSE 2 * step[k - 1]
<1>5. step = [k \in 0..h |-> IF k < LOCATOR_DENSE THEN 1 ELSE 2 * step[k - 1]]
  BY ONLY <1>4
<1> DEFINE Next2(g, k) == g - step[k]
           Fits2(g, n) == g = [k \in 0..n |-> IF k = 0 THEN h ELSE Next2(g[k - 1], k)]
           T2 == {n \in Nat : \E g : Fits2(g, n)}
<1> HIDE DEF step, Next2
<1>6. 0 \in T2
  <2>1. Fits2([k \in 0..0 |-> h], 0)
    OBVIOUS
  <2> QED BY <2>1
<1>7. ASSUME NEW n \in Nat, n \in T2 PROVE n + 1 \in T2
  <2>1. PICK g : Fits2(g, n)
    BY <1>7
  <2> DEFINE e == [k \in 0..(n + 1) |-> IF k = n + 1 THEN Next2(g[n], n + 1) ELSE g[k]]
  <2>2. Fits2(e, n + 1)
    BY <2>1
  <2> HIDE DEF e, Fits2
  <2> QED BY <2>2
<1>8. \A n \in Nat : n \in T2
  <2> HIDE DEF T2
  <2> QED BY <1>6, <1>7, NatSetInduction
<1>9. \E g : g = [k \in 0..h |-> IF k = 0 THEN h ELSE g[k - 1] - step[k]]
  <2> HIDE DEF step
  <2> QED BY <1>8 DEF Next2
<1> DEFINE at[k \in 0..h] == IF k = 0 THEN h ELSE at[k - 1] - step[k]
<1>10. at = [k \in 0..h |-> IF k = 0 THEN h ELSE at[k - 1] - step[k]]
  <2> HIDE DEF step
  <2> QED BY ONLY <1>9
<1>11. LocatorHeights(h) = {0} \cup {x \in {at[k] : k \in 0..h} : x > 0}
  BY ONLY TRUE DEF LocatorHeights, step
<1> HIDE DEF step, at
<1> WITNESS step, at
<1> QED BY ONLY <1>5, <1>10, <1>11

\* A locator names blocks of the path only.
LEMMA LocatorWithin ==
  ASSUME NEW t \in Blocks
  PROVE  Locator(t) \subseteq Range(PathTo[t])
<1>1. PICK s \in Seq(Blocks), h \in Nat : s = PathTo[t] /\ h = Len(s) - 1
  <2>1. PICK s \in Seq(Blocks) : s = PathTo[t] /\ Len(s) \in Nat \ {0}
    BY PathFacts
  <2>2. Len(s) - 1 \in Nat
    BY <2>1
  <2> QED BY <2>1, <2>2
<1>2. PICK f, g : /\ f = [k \in 0..h |-> IF k < LOCATOR_DENSE THEN 1 ELSE 2 * f[k - 1]]
                  /\ g = [k \in 0..h |-> IF k = 0 THEN h ELSE g[k - 1] - f[k]]
                  /\ LocatorHeights(h) = {0} \cup {x \in {g[k] : k \in 0..h} : x > 0}
  BY LocatorDef
<1> DEFINE S == {k \in Nat : k <= h => f[k] \in Nat /\ g[k] \in Int /\ g[k] <= h}
<1>3. 0 \in S
  <2>1. f[0] = 1
    BY <1>2, SyncAssumption
  <2>2. g[0] = h
    BY <1>2
  <2> QED BY <2>1, <2>2
<1>4. ASSUME NEW k \in Nat, k \in S PROVE k + 1 \in S
  <2> SUFFICES ASSUME k + 1 <= h PROVE f[k + 1] \in Nat /\ g[k + 1] \in Int /\ g[k + 1] <= h
    OBVIOUS
  <2>1. k + 1 \in 0..h /\ k + 1 # 0 /\ (k + 1) - 1 = k
    OBVIOUS
  <2>2. f[k] \in Nat /\ g[k] \in Int /\ g[k] <= h
    BY <1>4
  <2>3. f[k + 1] = (IF k + 1 < LOCATOR_DENSE THEN 1 ELSE 2 * f[k]) /\ g[k + 1] = g[k] - f[k + 1]
    BY ONLY <1>2, <2>1
  <2> QED BY ONLY <2>2, <2>3, h \in Nat
<1>5. \A k \in Nat : k \in S
  <2> HIDE DEF S
  <2> QED BY <1>3, <1>4, NatSetInduction
<1>6. \A k \in 0..h : g[k] \in Int /\ g[k] <= h
  BY <1>5
<1>7. \A x \in LocatorHeights(h) : x + 1 \in 1..(h + 1)
  BY <1>2, <1>6
<1>8. Locator(t) = {s[x + 1] : x \in LocatorHeights(h)} /\ DOMAIN s = 1..(h + 1)
  BY <1>1 DEF Locator
<1> QED BY ONLY <1>1, <1>7, <1>8 DEF Range

\* A path ends in its block.
LEMMA PathEnd ==
  ASSUME NEW b \in Blocks
  PROVE  PathTo[b][Len(PathTo[b])] = b
<1>1. CASE b = Genesis
  BY <1>1, PathAssumption
<1>2. CASE b # Genesis
  <2>1. PICK s \in Seq(Blocks) : PathTo[b] = Append(s, b)
    BY <1>2, PathAssumption
  <2> QED BY <2>1
<1> QED BY <1>1, <1>2

\* The answer to a locator that names a block at most a round below the tip,
\* but not the tip, includes the tip.
LEMMA HashesReach ==
  ASSUME NetTypes, NEW n \in Nodes, NEW locator, tip[n] \notin locator,
         NEW i \in DOMAIN Active(n), Active(n)[i] \in locator,
         Len(Active(n)) <= i + BLOCKS_PER_ROUND
  PROVE  tip[n] \in Range(HashesAfter(n, locator))
<1>1. PICK a \in Seq(Blocks), len \in Nat \ {0} : a = Active(n) /\ len = Len(a) /\ a[len] = tip[n]
  BY PathFacts, PathEnd DEF NetTypes, Active
<1>2. PICK common : common = {j \in 1..len : a[j] \in locator}
  OBVIOUS
<1>3. i \in common /\ common \subseteq 1..len /\ len <= i + BLOCKS_PER_ROUND
  BY <1>1, <1>2
<1>4. PICK f \in common : \A j \in common : j <= f
  <2>1. PICK R : R = {len - j : j \in common}
    OBVIOUS
  <2>2. R \subseteq Nat /\ R # {}
    BY <1>3, <2>1
  <2>3. PICK m \in R : \A k \in R : m <= k
    BY <2>2, LeastNat
  <2>4. PICK g \in common : m = len - g
    BY <2>1, <2>3
  <2>5. \A j \in common : len - g <= len - j
    BY <2>1, <2>3, <2>4
  <2>6. \A j \in common : j <= g
    BY ONLY <2>5, <1>3, len \in Nat, g \in common
  <2> QED BY <2>6
<1>5. PICK fork \in common : /\ fork = CHOOSE k \in common : \A j \in common : j <= k
                             /\ \A j \in common : j <= fork
  BY ONLY <1>4
<1>6. fork \in 1..len /\ i <= fork /\ fork # len
  BY <1>1, <1>2, <1>3, <1>5
<1>7. len <= fork + BLOCKS_PER_ROUND
  BY <1>3, <1>6, SyncAssumption
<1>8. HashesAfter(n, locator) = SubSeq(a, fork + 1, len)
  <2>1. (IF len < fork + BLOCKS_PER_ROUND THEN len ELSE fork + BLOCKS_PER_ROUND) = len
    BY <1>6, <1>7, SyncAssumption
  <2>2. DOMAIN a = 1..len
    BY <1>1
  <2> QED BY ONLY <1>1, <1>2, <1>5, <2>1, <2>2 DEF HashesAfter
<1>9. PICK s : s = SubSeq(a, fork + 1, len)
  OBVIOUS
<1>10. PICK k \in Nat \ {0} : k = len - fork
  BY <1>6
<1>11. DOMAIN s = 1..k /\ s[k] = a[len]
  <2>1. len = fork + k
    BY <1>6, <1>10
  <2> QED BY <1>1, <1>6, <1>9, <1>10, <2>1
<1>12. s[k] \in Range(s)
  BY <1>11 DEF Range
<1> QED BY <1>1, <1>8, <1>9, <1>11, <1>12

\* The work of a node's tips, and of what it knows.
LEMMA TipWork ==
  ASSUME NetTypes
  PROVE  /\ \A n \in Nodes : tip[n] \in Blocks /\ CumWork[tip[n]] \in Nat
         /\ \A n \in Nodes : \A b \in known[n] : b \in Blocks /\ CumWork[b] \in Nat
         /\ setup.start \in [Nodes -> Blocks]
BY WorkGrows, SyncAssumption DEF NetTypes

\* A node that lags does not know the other's tip, and is lower.
LEMMA Lagging ==
  ASSUME NetTypes, BestTips, NEW n \in Nodes, NEW m \in Nodes,
         CumWork[tip[n]] < CumWork[tip[m]]
  PROVE  /\ tip[m] \notin known[n]
         /\ SyncsInOneRound(setup) => Len(PathTo[tip[m]]) > Len(PathTo[tip[n]])
<1>1. PICK x \in Nat, y \in Nat : x = CumWork[tip[n]] /\ y = CumWork[tip[m]] /\ x < y /\ y > x
  BY TipWork
<1>2. tip[m] \notin known[n]
  <2>1. ASSUME tip[m] \in known[n] PROVE y <= x
    BY <1>1, <2>1 DEF BestTips
  <2> QED BY <1>1, <2>1
<1>3. tip[n] \in Existing(setup) /\ tip[m] \in Existing(setup)
  BY DEF BestTips
<1> QED BY <1>1, <1>2, <1>3 DEF SyncsInOneRound, MoreWorkIsHigher

\* A node learns a block that some other has.
LEMMA LearnsBest ==
  ASSUME SyncInv, BestTips, NEW n \in Nodes, NEW b \in Blocks, b \in Existing(setup),
         Connects(n, b), setup' = setup
  PROVE  /\ BestTips'
         /\ \A k \in Nodes \ {n} : tip'[k] = tip[k]
         /\ CumWork[tip[n]] <= CumWork[tip'[n]] /\ CumWork[b] <= CumWork[tip'[n]]
         /\ tip'[n] = NewTip(n, b) /\ tip'[n] \in {b, tip[n]}
         /\ tip'[n] \in known'[n] \cap Tips(setup, n)
<1>1. /\ known \in [Nodes -> SUBSET Blocks] /\ tip \in [Nodes -> Blocks]
      /\ saved \in [Nodes -> Blocks] /\ NetTypes
  BY DEF SyncInv, NetTypes
<1>2. /\ known' = [known EXCEPT ![n] = known[n] \cup {b}] /\ tip' = [tip EXCEPT ![n] = NewTip(n, b)]
      /\ saved' = saved \/ (saved' = [saved EXCEPT ![n] = b] /\ NewTip(n, b) = b)
  BY DEF Connects
<1>3. PICK w \in Nat, x \in Nat, y \in Nat : /\ w = CumWork[b] /\ x = CumWork[tip[n]]
                                             /\ y = CumWork[setup.start[n]]
  BY <1>1, TipWork, WorkGrows
<1>4. x >= y
  BY <1>3 DEF BestTips, Tips
<1>5. PICK t \in {b, tip[n]} : t = NewTip(n, b) /\ CumWork[t] \in Nat /\ x <= CumWork[t] /\ w <= CumWork[t]
  <2>1. NewTip(n, b) = IF w > x THEN b ELSE tip[n]
    BY <1>3 DEF NewTip
  <2>2. CASE w > x
    BY <1>3, <2>1, <2>2
  <2>3. CASE ~ (w > x)
    BY <1>3, <2>1, <2>3
  <2> QED BY <2>2, <2>3
<1>6. /\ known'[n] = known[n] \cup {b} /\ tip'[n] = t
      /\ \A k \in Nodes \ {n} : known'[k] = known[k] /\ tip'[k] = tip[k] /\ saved'[k] = saved[k]
      /\ saved'[n] = saved[n] \/ (saved'[n] = b /\ t = b)
  BY <1>1, <1>2, <1>5
<1>7. t \in Tips(setup, n) /\ t \in known'[n]
  <2>1. CumWork[t] >= y
    BY ONLY <1>4, <1>5, x \in Nat, y \in Nat
  <2>2. t \in Existing(setup) /\ t \in known'[n]
    BY <1>1, <1>6 DEF BestTips
  <2> QED BY <1>3, <2>1, <2>2 DEF Tips
<1>8. ASSUME NEW k \in Nodes
      PROVE  /\ known'[k] \subseteq Existing(setup)
             /\ {tip'[k], saved'[k]} \subseteq Tips(setup, k) \cap known'[k]
             /\ \A c \in known'[k] : CumWork[c] <= CumWork[tip'[k]]
  <2>1. CASE k # n
    BY <1>6, <2>1 DEF BestTips
  <2>2. CASE k = n
    <3>1. known'[n] \subseteq Existing(setup)
      BY <1>6 DEF BestTips
    <3>2. saved'[n] \in Tips(setup, n) \cap known'[n]
      BY <1>6, <1>7 DEF BestTips
    <3>3. ASSUME NEW c \in known'[n] PROVE CumWork[c] <= CumWork[t]
      <4>1. CASE c = b
        BY <1>3, <1>5, <4>1
      <4>2. CASE c # b
        <5>1. c \in known[n] /\ CumWork[c] <= x /\ CumWork[c] \in Nat
          BY <1>1, <1>3, <1>6, <3>3, <4>2, TipWork DEF BestTips
        <5> QED BY ONLY <5>1, <1>5, x \in Nat
      <4> QED BY <4>1, <4>2
    <3> QED BY <1>6, <1>7, <2>2, <3>1, <3>2, <3>3
  <2> QED BY <2>1, <2>2
<1>9. BestTips'
  <2>1. \A k : Tips(setup, k)' = Tips(setup, k)
    BY DEF Tips, Existing
  <2>2. Existing(setup)' = Existing(setup)
    BY DEF Existing
  <2> QED BY <1>8, <2>1, <2>2 DEF BestTips
<1> QED BY <1>3, <1>5, <1>6, <1>7, <1>9

\* A handler of node n that takes a message of m does what the message was for.
LEMMA HandlerEnds ==
  ASSUME SyncInv, NetTypes', LagsEnd, NEW n, NEW m, Ends(n, m), OthersStay(n, m),
         links' = links, \A k \in Nodes \ {n} : tip'[k] = tip[k],
         CumWork[tip[n]] <= CumWork[tip'[n]],
         \A a \in Peers(n) : tip'[n] # tip[n] /\ CumWork[tip'[a]] < CumWork[tip'[n]] =>
            CatchesUp(<<a, n>>)',
         Brings(Msg(n, m), tip[m]) /\ CumWork[tip'[n]] < CumWork[tip[m]] => CatchesUp(<<n, m>>)',
         Asks(Msg(n, m), tip[n]) /\ tip'[n] = tip[n] /\ CumWork[tip[m]] < CumWork[tip[n]] =>
            CatchesUp(<<m, n>>)'
  PROVE  LagsEnd'
<1> SUFFICES ASSUME NEW p \in Pairs, {p[1], p[2]} \in links,
                    CumWork[tip'[p[1]]] < CumWork[tip'[p[2]]]
             PROVE  CatchesUp(p)'
  BY DEF LagsEnd
<1>1. PICK a \in Nodes, c \in Nodes : p = <<a, c>> /\ a = p[1] /\ c = p[2]
  BY PairFacts
<1>2. /\ n \in Nodes /\ m \in Nodes /\ n # m /\ {a, c} \in links /\ <<c, a>> \in Pairs
      /\ CumWork[tip'[a]] < CumWork[tip'[c]]
  BY <1>1, PairFacts DEF Ends
<1>3. CASE tip'[c] # tip[c]
  <2>1. c = n
    BY <1>3
  <2>2. a \in Peers(n)
    <3>1. {n, a} = {a, c}
      BY <2>1
    <3> QED BY <1>2, <3>1 DEF Peers
  <2> QED BY <1>1, <1>2, <1>3, <2>1, <2>2
<1>4. CASE tip'[c] = tip[c]
  <2>1. CumWork[tip[a]] < CumWork[tip[c]]
    <3>1. PICK x \in Nat, y \in Nat, z \in Nat :
             x = CumWork[tip[a]] /\ y = CumWork[tip'[a]] /\ z = CumWork[tip[c]]
      <4>1. CumWork[tip[a]] \in Nat /\ CumWork[tip[c]] \in Nat
        BY TipWork DEF SyncInv
      <4>2. CumWork[tip'[a]] \in Nat
        BY WorkGrows DEF NetTypes
      <4> QED BY <4>1, <4>2
    <3>2. x <= y
      BY <3>1
    <3> QED BY <1>2, <1>4, <3>1, <3>2
  <2>2. CatchesUp(p)
    BY <1>1, <1>2, <2>1 DEF LagsEnd
  <2>3. ASSUME NEW x \in In(<<c, a>>), Brings(x, tip[c]) PROVE CatchesUp(p)'
    <3>1. CASE <<c, a>> = <<m, n>> /\ x = Msg(n, m)
      <4>1. c = m /\ a = n
        BY <3>1
      <4> QED BY <1>1, <1>2, <1>4, <2>3, <3>1, <4>1
    <3>2. CASE ~ (<<c, a>> = <<m, n>> /\ x = Msg(n, m))
      <4>1. x \in In(<<c, a>>)'
        BY <1>2, <2>3, <3>2 DEF OthersStay
      <4> QED BY <1>1, <1>4, <2>3, <4>1 DEF CatchesUp
    <3> QED BY <3>1, <3>2
  <2>4. ASSUME NEW x \in In(p), Asks(x, tip[c]) PROVE CatchesUp(p)'
    <3>1. CASE p = <<m, n>> /\ x = Msg(n, m)
      <4>1. a = m /\ c = n /\ tip'[m] = tip[m]
        BY <1>1, <1>2, <3>1
      <4> QED BY <1>1, <1>4, <2>1, <2>4, <3>1, <4>1
    <3>2. CASE ~ (p = <<m, n>> /\ x = Msg(n, m))
      <4>1. x \in In(p)'
        BY <2>4, <3>2 DEF OthersStay
      <4> QED BY <1>1, <1>4, <2>4, <4>1 DEF CatchesUp
    <3> QED BY <3>1, <3>2
  <2> QED BY <1>1, <2>2, <2>3, <2>4 DEF CatchesUp
<1> QED BY <1>3, <1>4

\* What was true of a sender stays true while it forgets nothing.
LEMMA HandlerTold ==
  ASSUME SyncInv, MessagesTold, NEW c \in Pairs, chan[c] # <<>>,
         NEW out \in [Pairs -> Seq(Messages)], chan' = Deliver(c, out), setup' = setup,
         \A k \in Nodes : known[k] \subseteq known'[k],
         \A p \in Pairs : \A x \in Range(out[p]) : Told(x, p, known')
  PROVE  MessagesTold'
<1> SUFFICES ASSUME NEW p \in Pairs, NEW x \in In(p)' PROVE Told(x, p, known)'
  BY DEF MessagesTold
<1>1. In(p)' \subseteq In(p) \cup Range(out[p])
  BY Delivered DEF SyncInv, NetTypes
<1>2. Told(x, p, known')
  <2>1. CASE x \in In(p)
    <3>1. Told(x, p, known) /\ known[p[1]] \subseteq known'[p[1]]
      BY <2>1, PairFacts DEF MessagesTold
    <3> QED BY ONLY <3>1 DEF Told
  <2>2. CASE x \in Range(out[p])
    BY <2>2
  <2> QED BY <1>1, <2>1, <2>2
<1>3. \A k : Tips(setup, k)' = Tips(setup, k)
  BY DEF Tips, Existing
<1> QED BY <1>2, <1>3 DEF Told

\* A handler that changes no chain.
LEMMA HandlerSpread ==
  ASSUME SyncInv, SyncInv', SpreadInv, NEW n, NEW m, Ends(n, m), chan[<<m, n>>] # <<>>,
         OthersStay(n, m), NEW out \in [Pairs -> Seq(Messages)], chan' = Deliver(<<m, n>>, out),
         UNCHANGED <<setup, links, known, tip, saved>>,
         \A p \in Pairs : \A x \in Range(out[p]) : Told(x, p, known),
         SyncsInOneRound(setup) /\ Brings(Msg(n, m), tip[m]) /\ CumWork[tip[n]] < CumWork[tip[m]]
            => CatchesUp(<<n, m>>)',
         SyncsInOneRound(setup) /\ Asks(Msg(n, m), tip[n]) /\ CumWork[tip[m]] < CumWork[tip[n]]
            => CatchesUp(<<m, n>>)'
  PROVE  SpreadInv'
<1>1. UNCHANGED <<setup, known, tip, saved>>
  OBVIOUS
<1>2. BestTips'
  BY ONLY <1>1, SpreadInv DEF SpreadInv, BestTips, Tips, Existing
<1>3. MessagesTold'
  <2>1. <<m, n>> \in Pairs /\ MessagesTold
    BY DEF Ends, SpreadInv
  <2>2. /\ \A k \in Nodes : known[k] \subseteq known'[k]
        /\ \A p \in Pairs : \A x \in Range(out[p]) : Told(x, p, known')
    BY <1>1
  <2> QED BY <2>1, <2>2, HandlerTold
<1>4. SyncsInOneRound(setup)' => LagsEnd'
  <2> SUFFICES ASSUME SyncsInOneRound(setup) PROVE LagsEnd'
    BY <1>1 DEF SyncsInOneRound, MoreWorkIsHigher, WithinRound, Tips, Existing
  <2>1. LagsEnd /\ NetTypes' /\ links' = links /\ tip' = tip
    BY DEF SpreadInv, SyncInv
  <2>2. CumWork[tip[n]] \in Nat
    BY TipWork DEF SyncInv, Ends
  <2>3. CumWork[tip[n]] <= CumWork[tip'[n]]
    BY <2>1, <2>2
  <2> QED BY <2>1, <2>3, HandlerEnds
<1> QED BY <1>2, <1>3, <1>4 DEF SpreadInv

\* Such a handler that answers its peer at most.
LEMMA AnswerSpreads ==
  ASSUME SyncInv, SyncInv', SpreadInv, NEW n, NEW m, Ends(n, m), chan[<<m, n>>] # <<>>,
         OthersStay(n, m), NEW ms \in Seq(Messages), Answers(n, m, ms),
         UNCHANGED <<setup, links, known, tip, saved>>,
         \A x \in Range(ms) : Told(x, <<n, m>>, known),
         Range(ms) \subseteq In(<<n, m>>)' /\ SyncsInOneRound(setup)
            /\ Brings(Msg(n, m), tip[m]) /\ CumWork[tip[n]] < CumWork[tip[m]]
            => CatchesUp(<<n, m>>)',
         Range(ms) \subseteq In(<<n, m>>)' /\ SyncsInOneRound(setup)
            /\ Asks(Msg(n, m), tip[n]) /\ CumWork[tip[m]] < CumWork[tip[n]]
            => CatchesUp(<<m, n>>)'
  PROVE  SpreadInv'
<1>1. PICK out \in [Pairs -> Seq(Messages)] :
         /\ chan' = Deliver(<<m, n>>, out)
         /\ \A p \in Pairs : out[p] = IF p = <<n, m>> THEN ms ELSE <<>>
  <2>1. CASE chan' = Deliver(<<m, n>>, Reply(n, m, ms))
    <3>1. PICK out : out = Reply(n, m, ms)
      OBVIOUS
    <3>2. /\ out \in [Pairs -> Seq(Messages)]
          /\ \A p \in Pairs : out[p] = IF p = <<n, m>> THEN ms ELSE <<>>
      BY <3>1, ReplyType
    <3> QED BY <2>1, <3>1, <3>2
  <2>2. CASE chan' = Deliver(<<m, n>>, Silence) /\ ms = <<>>
    <3>1. PICK out : out = Silence
      OBVIOUS
    <3>2. out \in [Pairs -> Seq(Messages)] /\ \A p \in Pairs : out[p] = <<>>
      BY <3>1, ReplyType
    <3> QED BY <2>2, <3>1, <3>2
  <2> QED BY <2>1, <2>2 DEF Answers
<1>2. PICK c \in Pairs, d \in Pairs : c = <<m, n>> /\ d = <<n, m>>
  BY DEF Ends
<1>3. Range(ms) \subseteq In(<<n, m>>)'
  <2>1. Range(out[d]) \subseteq In(d)'
    BY <1>1, <1>2, Delivered DEF SyncInv, NetTypes
  <2> QED BY <1>1, <1>2, <2>1
<1>4. \A p \in Pairs : \A x \in Range(out[p]) : Told(x, p, known)
  <2> SUFFICES ASSUME NEW p \in Pairs, NEW x \in Range(out[p]) PROVE Told(x, p, known)
    OBVIOUS
  <2>1. CASE p = <<n, m>>
    BY <1>1, <2>1
  <2>2. CASE p # <<n, m>>
    <3>1. out[p] = <<>>
      BY <1>1, <2>2
    <3> QED BY <3>1, RangeOne
  <2> QED BY <2>1, <2>2
<1> QED BY <1>1, <1>3, <1>4, HandlerSpread

\* Only messages of three types bring a block, and only two ask for one.
LEMMA BringTypes ==
  ASSUME NEW x, NEW b
  PROVE  /\ Brings(x, b) => x.type \in {"Hello", "Inv", "Block"}
         /\ Asks(x, b) => x.type \in {"GetBlocks", "GetData"}
         /\ x.type = "Block" => (Brings(x, b) <=> x = Block(b))
         /\ x.type = "Hello" => (Brings(x, b) => x.tip = b)
         /\ x.type = "Inv" => (Brings(x, b) <=> b \in Range(x.blocks))
         /\ x.type = "GetData" => (Asks(x, b) <=> b \in Range(x.blocks))
BY DEF Brings, Asks, Block

\* The greeting of a peer that is ahead is answered by a question.
LEMMA HelloSpreads ==
  ASSUME SyncInv, SpreadInv, NEW n, NEW m, Ends(n, m), OnHello(n, m)
  PROVE  SpreadInv'
<1>1. /\ m \in Peers(n) /\ chan[<<m, n>>] # <<>> /\ Msg(n, m).type = "Hello"
      /\ Msg(n, m) \in In(<<m, n>>)
  BY TakesMessage DEF OnHello
<1>2. SyncInv' /\ OthersStay(n, m)
  BY HelloKeeps
<1>3. n \in Nodes /\ m \in Nodes /\ <<m, n>> \in Pairs /\ tip[n] \in Blocks
  BY DEF Ends, SyncInv, NetTypes
<1>4. PICK ask \in Messages : ask = GetBlocks(tip[n])
  BY <1>3, MessageType
<1>5. Told(ask, <<n, m>>, known) /\ \A b : Asks(ask, b)
  <2>1. ask.type = "GetBlocks" /\ ask.locator = Locator(tip[n]) /\ <<n, m>>[1] = n
    BY <1>4 DEF GetBlocks
  <2>2. tip[n] \in known[n] \cap Tips(setup, n)
    BY <1>3 DEF SpreadInv, BestTips
  <2> QED BY <2>1, <2>2 DEF Told, Asks
<1>6. <<ask>> \in Seq(Messages) /\ <<>> \in Seq(Messages) /\ Range(<<ask>>) = {ask}
  BY RangeOne
<1>7. PICK ms \in Seq(Messages) :
         /\ Answers(n, m, ms) /\ Range(ms) \subseteq {ask}
         /\ Msg(n, m).height > Height(n) /\ Msg(n, m).tip \notin known[n] => ask \in Range(ms)
  BY <1>4, <1>6, RangeOne DEF OnHello, Answers
<1>8. UNCHANGED <<setup, links, known, tip, saved>>
  BY DEF OnHello
<1>9. ASSUME Range(ms) \subseteq In(<<n, m>>)', SyncsInOneRound(setup),
             Brings(Msg(n, m), tip[m]), CumWork[tip[n]] < CumWork[tip[m]]
      PROVE  CatchesUp(<<n, m>>)'
  <2>1. Msg(n, m).tip = tip[m] /\ Msg(n, m).height = Len(PathTo[Msg(n, m).tip]) - 1
    BY <1>1, <1>3, <1>9, BringTypes DEF SpreadInv, MessagesTold, Told
  <2>2. tip[m] \notin known[n] /\ Len(PathTo[tip[m]]) > Len(PathTo[tip[n]])
    BY <1>3, <1>9, Lagging DEF SpreadInv, SyncInv
  <2>3. PICK x \in Nat, y \in Nat : x = Len(PathTo[tip[n]]) /\ y = Len(PathTo[tip[m]])
    BY <1>3, PathFacts DEF SyncInv, NetTypes
  <2>4. Msg(n, m).height > Height(n)
    BY <2>1, <2>2, <2>3 DEF Height, Active
  <2>5. ask \in In(<<n, m>>)'
    BY <1>7, <1>9, <2>1, <2>2, <2>4
  <2> QED BY <1>5, <2>5 DEF CatchesUp
<1>10. ~ Asks(Msg(n, m), tip[n])
  BY <1>1, BringTypes
<1>11. \A x \in Range(ms) : Told(x, <<n, m>>, known)
  BY <1>5, <1>7
<1> QED BY <1>1, <1>2, <1>7, <1>8, <1>9, <1>10, <1>11, AnswerSpreads

\* The answer to a peer that lags ends in the tip.
LEMMA GetBlocksSpreads ==
  ASSUME SyncInv, SpreadInv, NEW n, NEW m, Ends(n, m), OnGetBlocks(n, m)
  PROVE  SpreadInv'
<1>1. /\ m \in Peers(n) /\ chan[<<m, n>>] # <<>> /\ Msg(n, m).type = "GetBlocks"
      /\ Msg(n, m) \in In(<<m, n>>) /\ Sound(Msg(n, m), <<m, n>>, known)
  BY TakesMessage DEF OnGetBlocks
<1>2. SyncInv' /\ OthersStay(n, m)
  BY GetBlocksKeeps
<1>3. n \in Nodes /\ m \in Nodes /\ <<m, n>> \in Pairs /\ NetTypes /\ KnownClosed
  BY DEF Ends, SyncInv
<1>4. PICK hashes : hashes = HashesAfter(n, Msg(n, m).locator)
  OBVIOUS
<1>5. hashes \in Seq(Blocks) /\ Genesis \in Msg(n, m).locator
  <2>1. Genesis \in Msg(n, m).locator
    BY <1>1 DEF Sound
  <2> QED BY <1>3, <1>4, <2>1, HashesKnown
<1>6. PICK inv \in Messages : inv = Inv(hashes)
  BY <1>5, MessageType
<1>7. inv.type = "Inv" /\ inv.blocks = hashes
  BY <1>6 DEF Inv
<1>8. <<inv>> \in Seq(Messages) /\ <<>> \in Seq(Messages) /\ Range(<<inv>>) = {inv}
  BY RangeOne
<1>9. PICK ms \in Seq(Messages) :
         Answers(n, m, ms) /\ Range(ms) \subseteq {inv} /\ (hashes # <<>> => inv \in Range(ms))
  BY <1>4, <1>6, <1>8, RangeOne DEF OnGetBlocks, Answers
<1>10. UNCHANGED <<setup, links, known, tip, saved>>
  BY DEF OnGetBlocks
<1>11. ASSUME Range(ms) \subseteq In(<<n, m>>)', SyncsInOneRound(setup),
              CumWork[tip[m]] < CumWork[tip[n]]
       PROVE  CatchesUp(<<m, n>>)'
  <2>1. PICK t \in known[m] \cap Tips(setup, m) : Msg(n, m).locator = Locator(t)
    <3>1. Told(Msg(n, m), <<m, n>>, known) /\ <<m, n>>[1] = m
      BY <1>1, <1>3 DEF SpreadInv, MessagesTold
    <3> QED BY <1>1, <3>1 DEF Told
  <2>2. tip[n] \in Tips(setup, n) /\ tip[n] \notin known[m]
    BY <1>3, <1>11, Lagging DEF SpreadInv, BestTips
  <2>3. PICK i \in DOMAIN PathTo[tip[n]] : /\ PathTo[tip[n]][i] \in Locator(t)
                                          /\ Len(PathTo[tip[n]]) <= i + BLOCKS_PER_ROUND
    <3>1. <<m, n>>[1] = m /\ <<m, n>>[2] = n
      OBVIOUS
    <3> QED BY <1>3, <1>11, <2>1, <2>2, <3>1 DEF SyncsInOneRound, WithinRound
  <2>4. tip[n] \notin Locator(t)
    <3>1. t \in Blocks /\ Range(PathTo[t]) \subseteq known[m]
      BY <1>3, <2>1 DEF NetTypes, KnownClosed
    <3>2. Locator(t) \subseteq Range(PathTo[t])
      BY <3>1, LocatorWithin
    <3> QED BY <2>2, <3>1, <3>2
  <2>5. tip[n] \in Range(hashes)
    BY <1>3, <1>4, <2>1, <2>3, <2>4, HashesReach DEF Active
  <2>6. inv \in In(<<n, m>>)' /\ Brings(inv, tip'[n])
    BY <1>7, <1>9, <1>10, <1>11, <2>5, RangeOne DEF Brings
  <2> QED BY <2>6 DEF CatchesUp
<1>12. ~ Brings(Msg(n, m), tip[m])
  BY <1>1, BringTypes
<1>13. \A x \in Range(ms) : Told(x, <<n, m>>, known)
  BY <1>7, <1>9 DEF Told
<1> QED BY <1>1, <1>2, <1>9, <1>10, <1>11, <1>12, <1>13, AnswerSpreads

\* What a peer announces as its tip is asked for, or was before.
LEMMA InvSpreads ==
  ASSUME SyncInv, SpreadInv, NEW n, NEW m, Ends(n, m), OnInv(n, m)
  PROVE  SpreadInv'
<1>1. /\ m \in Peers(n) /\ chan[<<m, n>>] # <<>> /\ Msg(n, m).type = "Inv"
      /\ Msg(n, m) \in Messages
  BY TakesMessage DEF OnInv
<1>2. SyncInv' /\ OthersStay(n, m)
  BY InvKeeps
<1>3. n \in Nodes /\ m \in Nodes /\ <<n, m>> \in Pairs /\ NetTypes
  BY DEF Ends, SyncInv
<1>4. PICK bs \in Seq(Blocks) : bs = Msg(n, m).blocks
  BY <1>1, MessageParts
<1>5. PICK want : want = Wanted(n, m, bs)
  OBVIOUS
<1>6. want \in Seq(Blocks) /\ Range(want) = Range(bs) \cap (Blocks \ (known[n] \cup requested[<<n, m>>]))
  BY <1>5, FilterRange DEF Wanted
<1>7. PICK ask \in Messages : ask = GetData(want)
  BY <1>6, MessageType
<1>8. <<ask>> \in Seq(Messages) /\ <<>> \in Seq(Messages) /\ Range(<<ask>>) = {ask}
  BY RangeOne
<1>9. PICK ms \in Seq(Messages) : Answers(n, m, ms) /\ Range(ms) \subseteq {ask}
  BY <1>4, <1>5, <1>7, <1>8, RangeOne DEF OnInv, Answers
<1>10. /\ UNCHANGED <<setup, links, known, tip, saved>>
       /\ requested' = [requested EXCEPT ![<<n, m>>] = requested[<<n, m>>] \cup Range(want)]
  BY <1>4, <1>5 DEF OnInv
<1>11. ASSUME Brings(Msg(n, m), tip[m]), CumWork[tip[n]] < CumWork[tip[m]]
       PROVE  CatchesUp(<<n, m>>)'
  <2>1. tip[m] \in Range(bs)
    BY <1>1, <1>4, <1>11, BringTypes
  <2>2. tip[m] \notin known[n] /\ tip[m] \in Blocks
    BY <1>3, <1>11, Lagging DEF SpreadInv, NetTypes
  <2>3. tip[m] \in requested'[<<n, m>>]
    <3>1. requested'[<<n, m>>] = requested[<<n, m>>] \cup Range(want)
      BY <1>3, <1>10 DEF NetTypes
    <3> QED BY <1>6, <2>1, <2>2, <3>1
  <2>4. Wait(<<n, m>>, tip[m])'
    BY <1>2, <1>3, <1>10, <2>3 DEF SyncInv, RequestsWait
  <2>5. <<n, m>>[1] = n /\ <<n, m>>[2] = m
    OBVIOUS
  <2> QED BY <1>10, <2>4, <2>5 DEF Wait, CatchesUp, Brings, Asks
<1>12. ~ Asks(Msg(n, m), tip[n])
  BY <1>1, BringTypes
<1>13. \A x \in Range(ms) : Told(x, <<n, m>>, known)
  BY <1>7, <1>9 DEF Told, GetData
<1>14. UNCHANGED <<setup, links, known, tip, saved>>
  BY <1>10
<1> QED BY <1>1, <1>2, <1>9, <1>11, <1>12, <1>13, <1>14, AnswerSpreads

\* A node sends the tip it is asked for.
LEMMA GetDataSpreads ==
  ASSUME SyncInv, SpreadInv, NEW n, NEW m, Ends(n, m), OnGetData(n, m)
  PROVE  SpreadInv'
<1>1. /\ m \in Peers(n) /\ chan[<<m, n>>] # <<>> /\ Msg(n, m).type = "GetData"
      /\ Msg(n, m) \in Messages
  BY TakesMessage DEF OnGetData
<1>2. SyncInv' /\ OthersStay(n, m)
  BY GetDataKeeps
<1>3. n \in Nodes /\ m \in Nodes /\ <<n, m>> \in Pairs /\ tip[n] \in known[n]
  BY DEF Ends, SyncInv, KnownClosed
<1>4. PICK bs \in Seq(Blocks) : bs = Msg(n, m).blocks
  BY <1>1, MessageParts
<1>5. PICK have \in Seq(Blocks) : /\ have = Filter(bs, known[n])
                                  /\ Range(have) = Range(bs) \cap known[n]
  BY FilterRange
<1>6. PICK ms : ms = [i \in DOMAIN have |-> Block(have[i])]
  OBVIOUS
<1>7. ms \in Seq(Messages) /\ Range(ms) = {Block(b) : b \in Range(have)}
  <2>1. PICK k \in Nat : DOMAIN have = 1..k /\ \A i \in 1..k : have[i] \in Blocks
    BY <1>5
  <2>2. \A i \in 1..k : Block(have[i]) \in Messages
    BY <2>1, MessageType
  <2>3. ms \in [1..k -> Messages]
    BY ONLY <1>6, <2>1, <2>2
  <2>4. ms \in Seq(Messages)
    BY ONLY <2>3, k \in Nat
  <2> QED BY ONLY <1>6, <2>1, <2>4 DEF Range
<1>8. Answers(n, m, ms)
  BY <1>4, <1>5, <1>6 DEF OnGetData, Answers
<1>9. UNCHANGED <<setup, links, known, tip, saved>>
  BY DEF OnGetData
<1>10. ASSUME Range(ms) \subseteq In(<<n, m>>)', Asks(Msg(n, m), tip[n])
       PROVE  CatchesUp(<<m, n>>)'
  <2>1. tip[n] \in Range(have)
    BY <1>1, <1>3, <1>4, <1>5, <1>10, BringTypes
  <2>2. Block(tip[n]) \in In(<<n, m>>)'
    BY <1>7, <1>10, <2>1
  <2>3. <<m, n>>[1] = m /\ <<m, n>>[2] = n
    OBVIOUS
  <2> QED BY <1>9, <2>2, <2>3 DEF CatchesUp, Brings
<1>11. ~ Brings(Msg(n, m), tip[m])
  BY <1>1, BringTypes
<1>12. \A x \in Range(ms) : Told(x, <<n, m>>, known)
  <2> SUFFICES ASSUME NEW x \in Range(ms) PROVE Told(x, <<n, m>>, known)
    OBVIOUS
  <2>1. PICK b \in known[n] : x = Block(b)
    BY <1>5, <1>7
  <2> QED BY <2>1 DEF Told, Block
<1> QED BY <1>1, <1>2, <1>7, <1>8, <1>9, <1>10, <1>11, <1>12, AnswerSpreads

\* A block that is known is no tip to catch up with.
LEMMA DuplicateSpreads ==
  ASSUME SyncInv, SpreadInv, NEW n, NEW m, Ends(n, m), OnDuplicate(n, m)
  PROVE  SpreadInv'
<1>1. /\ m \in Peers(n) /\ chan[<<m, n>>] # <<>> /\ Msg(n, m).type = "Block"
      /\ Msg(n, m).block \in known[n]
  BY TakesMessage DEF OnDuplicate
<1>2. SyncInv' /\ OthersStay(n, m)
  BY DuplicateKeeps
<1>3. PICK ms \in Seq(Messages) : ms = <<>>
  <2>1. \A S : <<>> \in Seq(S)
    BY ONLY TRUE
  <2> QED BY ONLY <2>1
<1>4. Answers(n, m, ms) /\ Range(ms) = {}
  BY <1>3, RangeOne DEF OnDuplicate, Answers
<1>5. UNCHANGED <<setup, links, known, tip, saved>>
  BY DEF OnDuplicate
<1>6. ~ Asks(Msg(n, m), tip[n])
  BY <1>1, BringTypes
<1>7. ASSUME Brings(Msg(n, m), tip[m]), CumWork[tip[n]] < CumWork[tip[m]] PROVE FALSE
  <2>1. tip[m] \in known[n]
    BY <1>1, <1>7, BringTypes DEF Block
  <2> QED BY <1>7, <2>1, Lagging DEF SyncInv, SpreadInv, Ends
<1>8. \A x \in Range(ms) : Told(x, <<n, m>>, known)
  BY <1>4
<1> QED BY <1>1, <1>2, <1>4, <1>5, <1>6, <1>7, <1>8, AnswerSpreads

\* After a block that does not connect the peer is asked for what is missing.
LEMMA OrphanSpreads ==
  ASSUME SyncInv, SpreadInv, NEW n, NEW m, Ends(n, m), OnOrphan(n, m)
  PROVE  SpreadInv'
<1>1. /\ m \in Peers(n) /\ chan[<<m, n>>] # <<>> /\ Msg(n, m).type = "Block"
  BY TakesMessage DEF OnOrphan
<1>2. SyncInv' /\ OthersStay(n, m)
  BY OrphanKeeps
<1>3. n \in Nodes /\ m \in Nodes /\ tip[n] \in Blocks
  BY DEF Ends, SyncInv, NetTypes
<1>4. PICK ask \in Messages : ask = GetBlocks(tip[n])
  BY <1>3, MessageType
<1>5. Told(ask, <<n, m>>, known) /\ \A b : Asks(ask, b)
  <2>1. ask.type = "GetBlocks" /\ ask.locator = Locator(tip[n]) /\ <<n, m>>[1] = n
    BY <1>4 DEF GetBlocks
  <2>2. tip[n] \in known[n] \cap Tips(setup, n)
    BY <1>3 DEF SpreadInv, BestTips
  <2> QED BY <2>1, <2>2 DEF Told, Asks
<1>6. PICK ms \in Seq(Messages) : ms = <<ask>>
  <2>1. <<ask>> \in Seq(Messages)
    BY ONLY ask \in Messages
  <2> QED BY ONLY <2>1
<1>7. Answers(n, m, ms) /\ Range(ms) = {ask}
  BY <1>4, <1>6, RangeOne DEF OnOrphan, Answers
<1>8. UNCHANGED <<setup, links, known, tip, saved>>
  BY DEF OnOrphan
<1>9. ASSUME Range(ms) \subseteq In(<<n, m>>)' PROVE CatchesUp(<<n, m>>)'
  <2>1. ask \in In(<<n, m>>)'
    BY <1>7, <1>9
  <2> QED BY <1>5, <2>1 DEF CatchesUp
<1>10. ~ Asks(Msg(n, m), tip[n])
  BY <1>1, BringTypes
<1>11. \A x \in Range(ms) : Told(x, <<n, m>>, known)
  BY <1>5, <1>7
<1> QED BY <1>1, <1>2, <1>7, <1>8, <1>9, <1>10, <1>11, AnswerSpreads

\* What is announced, and to whom.
LEMMA AnnounceTells ==
  ASSUME NEW n \in Nodes, NEW b \in Blocks, NEW from,
         NEW A, A = Announce(n, b, from)
  PROVE  /\ \A p \in Pairs : \A x \in Range(A[p]) : \A have : Told(x, p, have)
         /\ NewTip(n, b) = b =>
               \A a \in Peers(n) \ from : <<n, a>> \in Pairs => Inv(<<b>>) \in Range(A[<<n, a>>])
         /\ Brings(Inv(<<b>>), b)
<1>1. A = [p \in Pairs |-> IF p[1] = n /\ p[2] \in Peers(n) \ from /\ NewTip(n, b) = b
                           THEN <<Inv(<<b>>)>> ELSE <<>>]
  BY DEF Announce
<1>2. PICK x0 : x0 = Inv(<<b>>)
  OBVIOUS
<1>3. x0.type = "Inv" /\ Range(x0.blocks) = {b}
  BY <1>2, RangeOne DEF Inv
<1>4. Range(<<x0>>) = {x0} /\ Range(<<>>) = {}
  BY ONLY RangeOne
<1>5. \A p \in Pairs : A[p] = <<x0>> \/ A[p] = <<>>
  BY ONLY <1>1, <1>2
<1>6. ASSUME NEW p \in Pairs, NEW x \in Range(A[p]) PROVE x = x0
  <2>1. PICK a : a = A[p] /\ x \in Range(a)
    BY <1>6
  <2> QED BY ONLY <1>4, <1>5, <2>1, p \in Pairs
<1>7. ASSUME NewTip(n, b) = b, NEW a \in Peers(n) \ from, <<n, a>> \in Pairs
      PROVE  x0 \in Range(A[<<n, a>>])
  <2>1. PICK p \in Pairs : p = <<n, a>> /\ p[1] = n /\ p[2] = a
    BY <1>7
  <2>2. A[p] = <<x0>>
    BY ONLY <1>1, <1>2, <1>7, <2>1
  <2>3. x0 \in Range(A[p])
    BY ONLY <1>4, <2>2
  <2> QED BY ONLY <2>1, <2>3
<1>8. \A p : \A have : Told(x0, p, have)
  BY <1>3 DEF Told
<1> QED BY <1>2, <1>3, <1>6, <1>7, <1>8 DEF Brings

\* Of two adjacent nodes each is the other's peer.
LEMMA PeerEnds ==
  ASSUME NetTypes, NEW n \in Nodes, NEW a \in Peers(n)
  PROVE  a \in Nodes /\ <<n, a>> \in Pairs /\ <<a, n>> \in Pairs /\ {n, a} \in links
<1>1. a \in Nodes /\ {n, a} \in links /\ {n, a} \in Topology /\ {a, n} = {n, a}
  BY DEF Peers, NetTypes
<1> QED BY <1>1 DEF Pairs

\* The bounds of one round concern the setup only.
LEMMA SameRound ==
  ASSUME setup' = setup
  PROVE  /\ SyncsInOneRound(setup)' => SyncsInOneRound(setup)
         /\ Existing(setup)' = Existing(setup) /\ \A k : Tips(setup, k)' = Tips(setup, k)
BY DEF SyncsInOneRound, MoreWorkIsHigher, WithinRound, Tips, Existing

\* A node that has taken a block has caught up with it, and announces it if it
\* is ahead now.
LEMMA BlockSpreads ==
  ASSUME SyncInv, SpreadInv, NEW n, NEW m, Ends(n, m), OnBlock(n, m)
  PROVE  SpreadInv'
<1>1. /\ m \in Peers(n) /\ chan[<<m, n>>] # <<>> /\ Msg(n, m).type = "Block"
      /\ Msg(n, m) \in Messages /\ Msg(n, m) \in In(<<m, n>>)
  BY TakesMessage DEF OnBlock
<1>2. SyncInv' /\ OthersStay(n, m)
  BY BlockKeeps
<1>3. n \in Nodes /\ m \in Nodes /\ n # m /\ <<n, m>> \in Pairs /\ <<m, n>> \in Pairs
  BY DEF Ends
<1>4. PICK b \in Blocks : b = Msg(n, m).block
  BY <1>1, MessageParts
<1>5. PICK ms : ms = IF RequestedAfter(n, m, b) = {} THEN <<GetBlocks(NewTip(n, b))>> ELSE <<>>
  OBVIOUS
<1>6. PICK A : A = Announce(n, b, {m})
  OBVIOUS
<1>7. PICK out : out = [A EXCEPT ![<<n, m>>] = ms]
  OBVIOUS
<1>8. Connects(n, b) /\ chan' = Deliver(<<m, n>>, out) /\ UNCHANGED <<setup, links>>
  BY <1>4, <1>5, <1>6, <1>7 DEF OnBlock
<1>9. b \in known[m] /\ b \in Existing(setup)
  <2>1. Told(Msg(n, m), <<m, n>>, known) /\ <<m, n>>[1] = m
    BY <1>1, <1>3 DEF SpreadInv, MessagesTold
  <2> QED BY <1>1, <1>3, <1>4, <2>1 DEF SpreadInv, BestTips, Told
<1>10. /\ BestTips' /\ \A k \in Nodes \ {n} : tip'[k] = tip[k]
       /\ CumWork[tip[n]] <= CumWork[tip'[n]] /\ CumWork[b] <= CumWork[tip'[n]]
       /\ tip'[n] = NewTip(n, b) /\ tip'[n] \in {b, tip[n]}
       /\ tip'[n] \in known'[n] \cap Tips(setup, n)
  <2>1. BestTips /\ setup' = setup
    BY <1>8 DEF SpreadInv
  <2> QED BY <1>3, <1>8, <1>9, <2>1, LearnsBest
<1>11. \A k \in Nodes : known[k] \subseteq known'[k] /\ b \in known'[n]
  BY <1>3, <1>8 DEF Connects, SyncInv, NetTypes
<1>12. PICK ask \in Messages : ask = GetBlocks(tip'[n])
  BY <1>2, <1>3, MessageType DEF SyncInv, NetTypes
<1>13. Told(ask, <<n, m>>, known')
  <2>1. ask.type = "GetBlocks" /\ ask.locator = Locator(tip'[n]) /\ <<n, m>>[1] = n
    BY <1>12 DEF GetBlocks
  <2> QED BY <1>10, <2>1 DEF Told
<1>14. ms \in Seq(Messages) /\ Range(ms) \subseteq {ask}
  <2>1. <<ask>> \in Seq(Messages) /\ \A S : <<>> \in Seq(S)
    BY ONLY ask \in Messages
  <2>2. ms = <<ask>> \/ ms = <<>>
    BY <1>5, <1>10, <1>12
  <2> QED BY ONLY <2>1, <2>2, RangeOne
<1>15. A \in [Pairs -> Seq(Messages)]
  BY <1>3, <1>6, <1>11, AnnounceType
<1>16. /\ out \in [Pairs -> Seq(Messages)] /\ out[<<n, m>>] = ms
       /\ \A p \in Pairs : p # <<n, m>> => out[p] = A[p]
  BY ONLY <1>3, <1>7, <1>14, <1>15
<1>17. MessagesTold'
  <2>1. ASSUME NEW p \in Pairs, NEW x \in Range(out[p]) PROVE Told(x, p, known')
    <3>1. CASE p = <<n, m>>
      BY <1>13, <1>14, <1>16, <3>1
    <3>2. CASE p # <<n, m>>
      <4>1. x \in Range(A[p])
        BY <1>16, <2>1, <3>2
      <4> QED BY <1>3, <1>6, <4>1, AnnounceTells
    <3> QED BY <3>1, <3>2
  <2>2. PICK o \in [Pairs -> Seq(Messages)], c \in Pairs : o = out /\ c = <<m, n>>
    BY <1>3, <1>16
  <2>3. chan' = Deliver(c, o) /\ \A p \in Pairs : \A x \in Range(o[p]) : Told(x, p, known')
    BY <1>8, <2>1, <2>2
  <2>4. MessagesTold /\ chan[c] # <<>> /\ setup' = setup
    BY <1>1, <1>8, <2>2 DEF SpreadInv
  <2> QED BY <1>11, <2>3, <2>4, HandlerTold
<1>18. ASSUME SyncsInOneRound(setup) PROVE LagsEnd'
  <2>1. LagsEnd /\ NetTypes' /\ links' = links
    BY <1>2, <1>8, <1>18 DEF SpreadInv, SyncInv
  <2>2. PICK x \in Nat, y \in Nat, z \in Nat :
           /\ x = CumWork[b] /\ y = CumWork[tip'[n]] /\ z = CumWork[tip[m]] /\ x <= y /\ x <= z
    <3>1. CumWork[b] <= CumWork[tip[m]]
      BY <1>3, <1>9 DEF SpreadInv, BestTips
    <3>2. CumWork[b] \in Nat /\ CumWork[tip'[n]] \in Nat /\ CumWork[tip[m]] \in Nat
      BY <1>2, <1>3, WorkGrows DEF SyncInv, NetTypes
    <3> QED BY <1>10, <3>1, <3>2
  <2>3. ASSUME NEW a \in Peers(n), tip'[n] # tip[n], CumWork[tip'[a]] < CumWork[tip'[n]]
        PROVE  CatchesUp(<<a, n>>)'
    <3>1. a \in Nodes /\ <<n, a>> \in Pairs
      BY <1>3, <2>3, PeerEnds DEF SyncInv
    <3>2. tip'[n] = b /\ NewTip(n, b) = b
      BY <1>10, <2>3
    <3>3. a # m
      <4>1. ASSUME a = m PROVE z < x
        BY <1>3, <1>10, <2>2, <2>3, <3>2, <4>1
      <4> QED BY <2>2, <4>1
    <3>4. PICK p \in Pairs : p = <<n, a>> /\ p # <<n, m>>
      BY <3>1, <3>3
    <3>5. Inv(<<b>>) \in Range(A[<<n, a>>]) /\ Brings(Inv(<<b>>), b)
      <4>1. a \in Peers(n) \ {m}
        BY <3>3
      <4> QED BY <1>3, <1>6, <3>1, <3>2, <4>1, AnnounceTells
    <3>6. Range(out[p]) \subseteq In(p)'
      BY <1>1, <1>3, <1>8, <1>16, Delivered DEF SyncInv, NetTypes
    <3>7. Inv(<<b>>) \in In(p)'
      BY <1>16, <3>4, <3>5, <3>6
    <3>8. <<a, n>>[1] = a /\ <<a, n>>[2] = n
      OBVIOUS
    <3> QED BY <3>2, <3>4, <3>5, <3>7, <3>8 DEF CatchesUp
  <2>4. ~ (Brings(Msg(n, m), tip[m]) /\ CumWork[tip'[n]] < CumWork[tip[m]])
    <3>1. ASSUME Brings(Msg(n, m), tip[m]) PROVE b = tip[m]
      BY <1>1, <1>4, <3>1, BringTypes DEF Block
    <3>2. ASSUME b = tip[m] PROVE ~ (y < z)
      BY <2>2, <3>2
    <3> QED BY <2>2, <3>1, <3>2
  <2>5. ~ Asks(Msg(n, m), tip[n])
    BY <1>1, BringTypes
  <2> QED BY <1>2, <1>10, <2>1, <2>3, <2>4, <2>5, HandlerEnds
<1> QED BY <1>8, <1>10, <1>17, <1>18, SameRound DEF SpreadInv

\* A mined block is announced to all peers.
LEMMA MineSpreads ==
  ASSUME SyncInv, SpreadInv, NEW n \in Nodes, NEW b \in Blocks, Mine(n, b)
  PROVE  SpreadInv'
<1>1. PICK A : A = Announce(n, b, {})
  OBVIOUS
<1>2. /\ b \in setup.mine /\ b \notin known[n] /\ PREV[b] = tip[n] /\ Connects(n, b)
      /\ chan' = [p \in Pairs |-> chan[p] \o A[p]] /\ UNCHANGED <<setup, links, requested>>
  BY <1>1 DEF Mine
<1>3. PREV[b] \in known[n]
  BY <1>2 DEF SyncInv, KnownClosed
<1>4. /\ known' \in [Nodes -> SUBSET Blocks] /\ tip' \in [Nodes -> Blocks]
      /\ saved' \in [Nodes -> Blocks] /\ KnownClosed'
      /\ \A k \in Nodes : known[k] \subseteq known'[k] /\ b \in known'[n]
  BY <1>2, <1>3, ConnectsKeeps
<1>5. /\ A \in [Pairs -> Seq(Messages)]
      /\ \A p \in Pairs : A[p] # <<>> => {p[1], p[2]} \in links
      /\ \A p \in Pairs : \A x \in Range(A[p]) : Sound(x, p, known')
  BY <1>1, <1>4, AnnounceType
<1>6. SyncInv' /\ \A p \in Pairs : In(p)' = In(p) \cup Range(A[p])
  BY <1>2, <1>4, <1>5, QueueKeeps
<1>7. /\ BestTips' /\ \A k \in Nodes \ {n} : tip'[k] = tip[k]
      /\ CumWork[tip[n]] <= CumWork[tip'[n]]
      /\ tip'[n] = NewTip(n, b) /\ tip'[n] \in {b, tip[n]}
  <2>1. BestTips /\ setup' = setup /\ b \in Existing(setup)
    BY <1>2 DEF SpreadInv, Existing
  <2> QED BY <1>2, <2>1, LearnsBest
<1>8. MessagesTold'
  <2>1. ASSUME NEW p \in Pairs, NEW x \in In(p)' PROVE Told(x, p, known')
    <3>1. CASE x \in In(p)
      <4>1. Told(x, p, known) /\ known[p[1]] \subseteq known'[p[1]]
        BY <1>4, <3>1, PairFacts DEF SpreadInv, MessagesTold
      <4> QED BY ONLY <4>1 DEF Told
    <3>2. CASE x \in Range(A[p])
      BY <1>1, <3>2, AnnounceTells
    <3> QED BY <1>6, <2>1, <3>1, <3>2
  <2> QED BY <1>2, <2>1, SameRound DEF MessagesTold, Told
<1>9. ASSUME SyncsInOneRound(setup), NEW p \in Pairs, {p[1], p[2]} \in links,
             CumWork[tip'[p[1]]] < CumWork[tip'[p[2]]]
      PROVE  CatchesUp(p)'
  <2>1. PICK a \in Nodes, c \in Nodes : p = <<a, c>> /\ a = p[1] /\ c = p[2] /\ a # c
    BY PairFacts
  <2>2. <<c, a>> \in Pairs /\ {c, a} = {a, c} /\ {a, c} \in links
    BY <1>9, <2>1, PairFacts
  <2>3. CASE tip'[c] # tip[c]
    <3>1. c = n /\ tip'[c] = b /\ NewTip(n, b) = b
      BY <1>7, <2>1, <2>3
    <3>2. a \in Peers(n) \ {}
      BY <2>1, <2>2, <3>1 DEF Peers
    <3>3. Inv(<<b>>) \in Range(A[<<n, a>>]) /\ Brings(Inv(<<b>>), b)
      BY <1>1, <2>2, <3>1, <3>2, AnnounceTells
    <3>4. Inv(<<b>>) \in In(<<c, a>>)'
      BY <1>6, <2>2, <3>1, <3>3
    <3> QED BY <2>1, <3>1, <3>3, <3>4 DEF CatchesUp
  <2>4. CASE tip'[c] = tip[c]
    <3>1. CumWork[tip[a]] < CumWork[tip[c]]
      <4>1. PICK x \in Nat, y \in Nat, z \in Nat :
               x = CumWork[tip[a]] /\ y = CumWork[tip'[a]] /\ z = CumWork[tip[c]]
        BY <1>6, <2>1, WorkGrows DEF SyncInv, NetTypes
      <4>2. x <= y
        BY <1>7, <4>1
      <4> QED BY <1>9, <2>1, <2>4, <4>1, <4>2
    <3>2. CatchesUp(p)
      BY <1>9, <2>1, <3>1 DEF SpreadInv, LagsEnd
    <3> QED BY <1>6, <2>1, <2>2, <2>4, <3>2 DEF CatchesUp
  <2> QED BY <2>3, <2>4
<1>10. SyncsInOneRound(setup)' => LagsEnd'
  <2>1. setup' = setup /\ links' = links
    BY <1>2
  <2> QED BY <1>9, <2>1, SameRound DEF LagsEnd
<1> QED BY <1>7, <1>8, <1>10 DEF SpreadInv

\* Connections end, and with each all that was said on it.
LEMMA CloseSpreads ==
  ASSUME SyncInv, SpreadInv, NEW gone, Close(gone), setup' = setup, BestTips',
         \A p \in Pairs : {p[1], p[2]} \in links \ gone =>
            /\ known'[p[1]] = known[p[1]]
            /\ tip'[p[1]] = tip[p[1]] /\ tip'[p[2]] = tip[p[2]]
  PROVE  SpreadInv'
<1>1. ASSUME NEW p \in Pairs
      PROVE  IF {p[1], p[2]} \in links \ gone THEN In(p)' = In(p) ELSE In(p)' = {}
  <2>1. chan'[p] = IF {p[1], p[2]} \in gone THEN <<>> ELSE chan[p]
    BY DEF Close
  <2>2. {p[1], p[2]} \notin links => chan[p] = <<>>
    BY DEF SyncInv, LinksOnly
  <2>3. Range(<<>>) = {}
    BY ONLY RangeOne
  <2> QED BY <2>1, <2>2, <2>3 DEF In
<1>2. MessagesTold'
  <2> SUFFICES ASSUME NEW p \in Pairs, NEW x \in In(p)' PROVE Told(x, p, known)'
    BY DEF MessagesTold
  <2>1. {p[1], p[2]} \in links \ gone /\ x \in In(p)
    BY <1>1
  <2>2. Told(x, p, known) /\ known'[p[1]] = known[p[1]]
    BY <2>1 DEF SpreadInv, MessagesTold
  <2> QED BY <2>2, SameRound DEF Told
<1>3. ASSUME SyncsInOneRound(setup) PROVE LagsEnd'
  <2> SUFFICES ASSUME NEW p \in Pairs, {p[1], p[2]} \in links',
                      CumWork[tip'[p[1]]] < CumWork[tip'[p[2]]]
               PROVE  CatchesUp(p)'
    BY DEF LagsEnd
  <2>1. {p[1], p[2]} \in links \ gone
    BY DEF Close
  <2>2. PICK q \in Pairs : q = <<p[2], p[1]>> /\ {q[1], q[2]} = {p[1], p[2]}
    BY PairFacts
  <2>3. In(p)' = In(p) /\ In(q)' = In(q) /\ tip'[p[1]] = tip[p[1]] /\ tip'[p[2]] = tip[p[2]]
    BY <1>1, <2>1, <2>2
  <2>4. CatchesUp(p)
    BY <1>3, <2>1, <2>3 DEF SpreadInv, LagsEnd
  <2> QED BY <2>2, <2>3, <2>4 DEF CatchesUp
<1> QED BY <1>2, <1>3, SameRound DEF SpreadInv

\* No chain changes.
LEMMA SameTips ==
  ASSUME SpreadInv, UNCHANGED <<setup, known, tip, saved>>
  PROVE  BestTips'
BY DEF SpreadInv, BestTips, Tips, Existing

LEMMA CutSpreads ==
  ASSUME SyncInv, SpreadInv, NEW gone, Close(gone), UNCHANGED <<setup, known, tip, saved>>
  PROVE  SpreadInv'
BY SameTips, CloseSpreads

\* A node that starts again is back at the tip it saved, with no connection.
LEMMA CrashSpreads ==
  ASSUME SyncInv, SpreadInv, NEW n \in Nodes, Crash(n)
  PROVE  SpreadInv'
<1>1. PICK gone : gone = {{n, m} : m \in Peers(n)}
  OBVIOUS
<1>2. /\ Close(gone) /\ setup' = setup /\ saved' = saved
      /\ known' = [known EXCEPT ![n] = Range(PathTo[saved[n]])]
      /\ tip' = [tip EXCEPT ![n] = saved[n]]
  BY <1>1 DEF Crash
<1>3. PICK s \in Blocks : s = saved[n]
  BY DEF SyncInv, NetTypes
<1>4. /\ known'[n] = Range(PathTo[s]) /\ tip'[n] = s /\ saved'[n] = s
      /\ \A k \in Nodes \ {n} : known'[k] = known[k] /\ tip'[k] = tip[k] /\ saved'[k] = saved[k]
  BY <1>2, <1>3 DEF SyncInv, NetTypes
<1>5. s \in known[n] /\ s \in Tips(setup, n) /\ known[n] \subseteq Existing(setup)
  BY <1>3 DEF SpreadInv, BestTips
<1>6. Range(PathTo[s]) \subseteq known[n] /\ s \in Range(PathTo[s])
  BY <1>5, PathSet DEF SyncInv, KnownClosed
<1>7. ASSUME NEW k \in Nodes
      PROVE  /\ known'[k] \subseteq Existing(setup)
             /\ {tip'[k], saved'[k]} \subseteq Tips(setup, k) \cap known'[k]
             /\ \A c \in known'[k] : CumWork[c] <= CumWork[tip'[k]]
  <2>1. CASE k # n
    BY <1>4, <2>1 DEF SpreadInv, BestTips
  <2>2. CASE k = n
    <3>1. \A c \in Range(PathTo[s]) : CumWork[c] <= CumWork[s]
      BY WorkGrows
    <3> QED BY <1>4, <1>5, <1>6, <2>2, <3>1
  <2> QED BY <2>1, <2>2
<1>8. BestTips'
  BY <1>2, <1>7, SameRound DEF BestTips
<1>9. ASSUME NEW p \in Pairs, {p[1], p[2]} \in links \ gone
      PROVE  /\ known'[p[1]] = known[p[1]]
             /\ tip'[p[1]] = tip[p[1]] /\ tip'[p[2]] = tip[p[2]]
  <2>1. p[1] \in Nodes /\ p[2] \in Nodes /\ {p[2], p[1]} = {p[1], p[2]}
    BY PairFacts
  <2>2. p[1] # n /\ p[2] # n
    BY <1>1, <1>9, <2>1 DEF Peers
  <2> QED BY <1>4, <2>1, <2>2
<1> QED BY <1>2, <1>8, <1>9, CloseSpreads

\* The greeting of the node that is ahead starts the other's synchronisation.
LEMMA ConnectSpreads ==
  ASSUME SyncInv, SpreadInv, NEW n, NEW m, Ends(n, m), Connect(n, m)
  PROVE  SpreadInv'
<1>1. /\ {n, m} \notin links /\ links' = links \cup {{n, m}}
      /\ chan' = [chan EXCEPT ![<<n, m>>] = <<Hello(n)>>, ![<<m, n>>] = <<Hello(m)>>]
      /\ UNCHANGED <<setup, known, tip, requested, saved>>
  BY DEF Connect
<1>2. /\ <<n, m>> \in Pairs /\ <<m, n>> \in Pairs /\ n \in Nodes /\ m \in Nodes
      /\ {m, n} = {n, m} /\ n # m
  BY DEF Ends
<1>3. chan \in [Pairs -> Seq(Messages)]
  BY DEF SyncInv, NetTypes
<1>4. /\ chan'[<<n, m>>] = <<Hello(n)>> /\ chan'[<<m, n>>] = <<Hello(m)>>
      /\ \A p \in Pairs : p # <<n, m>> /\ p # <<m, n>> => chan'[p] = chan[p]
  <2>1. PICK c \in Pairs, d \in Pairs : c = <<n, m>> /\ d = <<m, n>> /\ c # d
    BY <1>2
  <2> QED BY <1>1, <1>3, <2>1
<1>5. ASSUME NEW p \in Pairs
      PROVE  \/ {p[1], p[2]} = {n, m} /\ In(p)' = {Hello(p[1])}
             \/ {p[1], p[2]} # {n, m} /\ In(p)' = In(p)
  <2>1. PICK a, c : p = <<a, c>> /\ a = p[1] /\ c = p[2]
    BY PairFacts
  <2>2. CASE {a, c} = {n, m}
    <3>1. p = <<n, m>> \/ p = <<m, n>>
      BY <1>2, <2>1, <2>2, PairFacts
    <3>2. chan'[p] = <<Hello(a)>>
      BY <1>4, <2>1, <3>1
    <3> QED BY <2>1, <2>2, <3>2, RangeOne DEF In
  <2>3. CASE {a, c} # {n, m}
    <3>1. p # <<n, m>> /\ p # <<m, n>>
      BY <1>2, <2>1, <2>3
    <3> QED BY <1>4, <2>1, <2>3, <3>1 DEF In
  <2> QED BY <2>1, <2>2, <2>3
<1>6. \A k : Hello(k).type = "Hello" /\ Hello(k).tip = tip[k] /\ Hello(k).height = Len(PathTo[tip[k]]) - 1
  BY DEF Hello, Height, Active
<1>7. MessagesTold'
  <2> SUFFICES ASSUME NEW p \in Pairs, NEW x \in In(p)' PROVE Told(x, p, known)'
    BY DEF MessagesTold
  <2>1. Told(x, p, known)
    <3>1. CASE x = Hello(p[1])
      BY <1>6, <3>1 DEF Told
    <3>2. CASE x \in In(p)
      BY <3>2 DEF SpreadInv, MessagesTold
    <3> QED BY <1>5, <3>1, <3>2
  <2> QED BY <1>1, <2>1, SameRound DEF Told
<1>8. ASSUME SyncsInOneRound(setup) PROVE LagsEnd'
  <2> SUFFICES ASSUME NEW p \in Pairs, {p[1], p[2]} \in links',
                      CumWork[tip[p[1]]] < CumWork[tip[p[2]]]
               PROVE  CatchesUp(p)'
    BY <1>1 DEF LagsEnd
  <2>1. PICK q \in Pairs : q = <<p[2], p[1]>> /\ {q[1], q[2]} = {p[1], p[2]} /\ q[1] = p[2]
    BY PairFacts
  <2>2. CASE {p[1], p[2]} = {n, m}
    <3>1. Hello(p[2]) \in In(q)'
      BY <1>5, <2>1, <2>2
    <3>2. Brings(Hello(p[2]), tip'[p[2]])
      BY <1>1, <1>6 DEF Brings
    <3> QED BY <2>1, <3>1, <3>2 DEF CatchesUp
  <2>3. CASE {p[1], p[2]} # {n, m}
    <3>1. In(p)' = In(p) /\ In(q)' = In(q) /\ {p[1], p[2]} \in links
      BY <1>1, <1>5, <2>1, <2>3
    <3>2. CatchesUp(p)
      BY <1>8, <3>1 DEF SpreadInv, LagsEnd
    <3> QED BY <1>1, <2>1, <3>1, <3>2 DEF CatchesUp
  <2> QED BY <2>2, <2>3
<1>9. BestTips'
  BY <1>1, SameTips
<1> QED BY <1>1, <1>7, <1>8, <1>9, SameRound DEF SpreadInv

\* Messages about transactions say nothing about blocks, and bring none.
LEMMA TxTells ==
  ASSUME NEW t, NEW x, x = InvTx(t) \/ x = GetTx(t) \/ x = Tx(t)
  PROVE  /\ \A p : \A have : Told(x, p, have)
         /\ \A b : ~ Brings(x, b) /\ ~ Asks(x, b)
<1>1. x.type \in {"InvTx", "GetTx", "Tx"}
  BY DEF InvTx, GetTx, Tx
<1> QED BY <1>1, BringTypes DEF Told

LEMMA InvTxSpreads ==
  ASSUME SyncInv, SpreadInv, NEW n, NEW m, Ends(n, m), OnInvTx(n, m)
  PROVE  SpreadInv'
<1>1. /\ chan[<<m, n>>] # <<>> /\ Msg(n, m).type = "InvTx" /\ Msg(n, m) \in Messages
  BY TakesMessage DEF OnInvTx
<1>2. SyncInv' /\ OthersStay(n, m)
  BY InvTxKeeps
<1>3. PICK t \in Txs : t = Msg(n, m).tx /\ Msg(n, m) = InvTx(t)
  BY <1>1, MessageParts
<1>4. PICK ask \in Messages : ask = GetTx(t)
  BY MessageType
<1>5. <<ask>> \in Seq(Messages) /\ <<>> \in Seq(Messages) /\ Range(<<ask>>) = {ask}
  BY RangeOne
<1>6. PICK ms \in Seq(Messages) : Answers(n, m, ms) /\ Range(ms) \subseteq {ask}
  BY <1>3, <1>4, <1>5, RangeOne DEF OnInvTx, Answers
<1>7. UNCHANGED <<setup, links, known, tip, saved>>
  BY DEF OnInvTx
<1>8. \A x \in Range(ms) : Told(x, <<n, m>>, known)
  BY <1>4, <1>6, TxTells
<1>9. ~ Brings(Msg(n, m), tip[m]) /\ ~ Asks(Msg(n, m), tip[n])
  BY <1>3, TxTells
<1> QED BY <1>1, <1>2, <1>6, <1>7, <1>8, <1>9, AnswerSpreads

LEMMA GetTxSpreads ==
  ASSUME SyncInv, SpreadInv, NEW n, NEW m, Ends(n, m), OnGetTx(n, m)
  PROVE  SpreadInv'
<1>1. /\ chan[<<m, n>>] # <<>> /\ Msg(n, m).type = "GetTx" /\ Msg(n, m) \in Messages
  BY TakesMessage DEF OnGetTx
<1>2. SyncInv' /\ OthersStay(n, m)
  BY GetTxKeeps
<1>3. PICK t \in Txs : t = Msg(n, m).tx /\ Msg(n, m) = GetTx(t)
  BY <1>1, MessageParts
<1>4. PICK answer \in Messages : answer = Tx(t)
  BY MessageType
<1>5. <<answer>> \in Seq(Messages) /\ <<>> \in Seq(Messages) /\ Range(<<answer>>) = {answer}
  BY RangeOne
<1>6. PICK ms \in Seq(Messages) : Answers(n, m, ms) /\ Range(ms) \subseteq {answer}
  BY <1>3, <1>4, <1>5, RangeOne DEF OnGetTx, Answers
<1>7. UNCHANGED <<setup, links, known, tip, saved>>
  BY DEF OnGetTx
<1>8. \A x \in Range(ms) : Told(x, <<n, m>>, known)
  BY <1>4, <1>6, TxTells
<1>9. ~ Brings(Msg(n, m), tip[m]) /\ ~ Asks(Msg(n, m), tip[n])
  BY <1>3, TxTells
<1> QED BY <1>1, <1>2, <1>6, <1>7, <1>8, <1>9, AnswerSpreads

LEMMA TxSpreads ==
  ASSUME SyncInv, SpreadInv, NEW n, NEW m, Ends(n, m), OnTx(n, m)
  PROVE  SpreadInv'
<1>1. /\ chan[<<m, n>>] # <<>> /\ Msg(n, m).type = "Tx" /\ Msg(n, m) \in Messages
  BY TakesMessage DEF OnTx
<1>2. SyncInv' /\ OthersStay(n, m)
  BY OnTxKeeps
<1>3. PICK t \in Txs : t = Msg(n, m).tx /\ Msg(n, m) = Tx(t)
  BY <1>1, MessageParts
<1>4. PICK out \in [Pairs -> Seq(Messages)] :
         /\ chan' = Deliver(<<m, n>>, out)
         /\ \A p \in Pairs : \A x \in Range(out[p]) : x = InvTx(t)
  <2>1. CASE Verdict(n, t) = "ok"
    <3>1. PICK A : A = Gossip(n, t, {m})
      OBVIOUS
    <3>2. chan' = Deliver(<<m, n>>, A)
      BY <1>3, <2>1, <3>1 DEF OnTx
    <3>3. /\ A \in [Pairs -> Seq(Messages)]
          /\ \A p \in Pairs : \A x \in Range(A[p]) : x = InvTx(t)
      BY <3>1, GossipType DEF Ends
    <3> QED BY ONLY <3>2, <3>3
  <2>2. CASE Verdict(n, t) # "ok"
    <3>1. PICK A : A = Silence
      OBVIOUS
    <3>2. PICK none \in Seq(Messages) : none = <<>>
      <4>1. \A S : <<>> \in Seq(S)
        BY ONLY TRUE
      <4> QED BY ONLY <4>1
    <3>3. A \in [Pairs -> Seq(Messages)] /\ \A p \in Pairs : A[p] = <<>>
      BY <3>1, <3>2, ReplyType
    <3>4. chan' = Deliver(<<m, n>>, A)
      BY <1>3, <2>2, <3>1 DEF OnTx
    <3> QED BY ONLY <3>3, <3>4, RangeOne
  <2> QED BY <2>1, <2>2
<1>5. UNCHANGED <<setup, links, known, tip, saved>>
  BY DEF OnTx
<1>6. \A p \in Pairs : \A x \in Range(out[p]) : Told(x, p, known)
  BY <1>4, TxTells
<1>7. ~ Brings(Msg(n, m), tip[m]) /\ ~ Asks(Msg(n, m), tip[n])
  BY <1>3, TxTells
<1> QED BY <1>1, <1>2, <1>4, <1>5, <1>6, <1>7, HandlerSpread

LEMMA SubmitSpreads ==
  ASSUME SyncInv, SpreadInv, NEW n \in Nodes, NEW t \in Txs, SubmitTx(n, t)
  PROVE  SpreadInv'
<1>1. PICK A \in [Pairs -> Seq(Messages)] :
         /\ A = Gossip(n, t, {})
         /\ \A p \in Pairs : \A x \in Range(A[p]) : x = InvTx(t)
  <2>1. PICK A : A = Gossip(n, t, {})
    OBVIOUS
  <2>2. /\ A \in [Pairs -> Seq(Messages)]
        /\ \A p \in Pairs : \A x \in Range(A[p]) : x = InvTx(t)
    BY <2>1, GossipType
  <2> QED BY <2>1, <2>2
<1>2. /\ chan' = [p \in Pairs |-> chan[p] \o A[p]]
      /\ UNCHANGED <<setup, links, known, tip, saved>>
  BY <1>1 DEF SubmitTx
<1>3. ASSUME NEW p \in Pairs PROVE In(p)' = In(p) \cup Range(A[p])
  <2>1. PICK s \in Seq(Messages), u \in Seq(Messages) : s = chan[p] /\ u = A[p]
    BY DEF SyncInv, NetTypes
  <2>2. chan'[p] = s \o u
    BY <1>2, <2>1
  <2>3. Range(s \o u) = Range(s) \cup Range(u)
    BY RangeConcat
  <2> QED BY <2>1, <2>2, <2>3 DEF In
<1>4. BestTips'
  BY <1>2, SameTips
<1>5. MessagesTold'
  <2> SUFFICES ASSUME NEW p \in Pairs, NEW x \in In(p)' PROVE Told(x, p, known)'
    BY DEF MessagesTold
  <2>1. Told(x, p, known)
    BY <1>1, <1>3, TxTells DEF SpreadInv, MessagesTold
  <2> QED BY <1>2, <2>1, SameRound DEF Told
<1>6. ASSUME LagsEnd PROVE LagsEnd'
  <2> SUFFICES ASSUME NEW p \in Pairs, {p[1], p[2]} \in links',
                      CumWork[tip'[p[1]]] < CumWork[tip'[p[2]]]
               PROVE  CatchesUp(p)'
    BY DEF LagsEnd
  <2>1. CatchesUp(p)
    BY <1>2, <1>6 DEF LagsEnd
  <2>2. PICK q \in Pairs : q = <<p[2], p[1]>>
    BY PairFacts
  <2>3. In(p) \subseteq In(p)' /\ In(q) \subseteq In(q)' /\ tip' = tip
    BY <1>2, <1>3
  <2> QED BY <2>1, <2>2, <2>3 DEF CatchesUp
<1> QED BY <1>2, <1>4, <1>5, <1>6, SameRound DEF SpreadInv

LEMMA SpreadInitially ==
  SyncInit => SpreadInv
<1> SUFFICES ASSUME SyncInit PROVE SpreadInv
  OBVIOUS
<1>1. /\ setup \in Setups /\ setup.start \in [Nodes -> Blocks]
      /\ known = [n \in Nodes |-> Range(PathTo[setup.start[n]])]
      /\ tip = setup.start /\ saved = setup.start /\ links = {}
      /\ chan = [p \in Pairs |-> <<>>]
  BY SyncAssumption DEF SyncInit
<1>2. ASSUME NEW n \in Nodes
      PROVE  /\ known[n] \subseteq Existing(setup)
             /\ {tip[n], saved[n]} \subseteq Tips(setup, n) \cap known[n]
             /\ \A b \in known[n] : CumWork[b] <= CumWork[tip[n]]
  <2>1. PICK s \in Blocks : s = setup.start[n]
    BY <1>1
  <2>2. known[n] = Range(PathTo[s]) /\ tip[n] = s /\ saved[n] = s
    BY <1>1, <2>1
  <2>3. known[n] \subseteq Existing(setup)
    BY <1>1 DEF Existing
  <2>4. s \in known[n]
    BY <2>2, PathSet
  <2>5. CumWork[s] \in Nat /\ \A b \in known[n] : CumWork[b] <= CumWork[s]
    BY <2>2, WorkGrows
  <2>6. s \in Tips(setup, n)
    <3>1. CumWork[s] >= CumWork[s]
      BY <2>5
    <3> QED BY <2>1, <2>3, <2>4, <3>1 DEF Tips
  <2> QED BY <2>2, <2>3, <2>4, <2>5, <2>6
<1>3. \A p \in Pairs : In(p) = {}
  BY <1>1, RangeOne DEF In
<1> QED BY <1>1, <1>2, <1>3 DEF SpreadInv, BestTips, MessagesTold, LagsEnd

LEMMA SpreadSame ==
  ASSUME SpreadInv, UNCHANGED syncVars
  PROVE  SpreadInv'
<1>1. UNCHANGED <<setup, known, tip, links, chan, saved>>
  BY DEF syncVars
<1>2. BestTips'
  BY <1>1, SameTips
<1>3. MessagesTold'
  BY <1>1, SameRound DEF SpreadInv, MessagesTold, Told, In
<1>4. LagsEnd => LagsEnd'
  BY <1>1 DEF LagsEnd, CatchesUp, In
<1> QED BY <1>1, <1>2, <1>3, <1>4, SameRound DEF SpreadInv

LEMMA SpreadStep ==
  ASSUME NetInv, SpreadInv, [Next]_vars
  PROVE  SpreadInv'
<1>0. SyncInv
  BY DEF NetInv
<1>1. ASSUME NEW n \in Nodes, NEW t \in Txs, SubmitTx(n, t) PROVE SpreadInv'
  BY <1>0, <1>1, SubmitSpreads
<1>2. ASSUME NEW n \in Nodes, NEW b \in Blocks, MineFromPool(n, b) PROVE SpreadInv'
  BY <1>0, <1>2, MineSpreads DEF MineFromPool
<1>3. ASSUME NEW p \in Pairs, Receive(p[1], p[2]) PROVE SpreadInv'
  <2>1. PICK n, m \in Nodes : n = p[1] /\ m = p[2] /\ Ends(n, m)
    BY PairEnds, PairFacts
  <2>2. ASSUME Handle(n, m) PROVE SpreadInv'
    BY <1>0, <2>1, <2>2, HelloSpreads, GetBlocksSpreads, InvSpreads, GetDataSpreads,
       BlockSpreads, OrphanSpreads, DuplicateSpreads DEF Handle
  <2>3. ASSUME OnInvTx(n, m) PROVE SpreadInv'
    BY <1>0, <2>1, <2>3, InvTxSpreads
  <2>4. ASSUME OnGetTx(n, m) PROVE SpreadInv'
    BY <1>0, <2>1, <2>4, GetTxSpreads
  <2>5. ASSUME OnTx(n, m) PROVE SpreadInv'
    BY <1>0, <2>1, <2>5, TxSpreads
  <2>6. ASSUME OnInvalidTx(n, m) PROVE SpreadInv'
    <3>1. Close({{n, m}}) /\ UNCHANGED <<setup, known, tip, saved>>
      BY <2>6 DEF OnInvalidTx
    <3> QED BY <1>0, <3>1, CutSpreads
  <2> QED BY <1>3, <2>1, <2>2, <2>3, <2>4, <2>5, <2>6 DEF Receive
<1>4. ASSUME NEW p \in Pairs, Dial(p[1], p[2]) PROVE SpreadInv'
  BY <1>0, <1>4, PairEnds, ConnectSpreads DEF Dial
<1>5. ASSUME NEW p \in Pairs, LinkBreaks(p[1], p[2]) PROVE SpreadInv'
  <2>1. Close({{p[1], p[2]}}) /\ UNCHANGED <<setup, known, tip, saved>>
    BY <1>5 DEF LinkBreaks, Drop
  <2> QED BY <1>0, <2>1, CutSpreads
<1>6. ASSUME NEW n \in Nodes, Restart(n) PROVE SpreadInv'
  BY <1>0, <1>6, CrashSpreads DEF Restart
<1>7. ASSUME NEW p \in Pairs, BanEnds(p[1], p[2]) PROVE SpreadInv'
  BY <1>7, SpreadSame DEF BanEnds
<1>8. ASSUME UNCHANGED vars PROVE SpreadInv'
  BY <1>8, SpreadSame DEF vars
<1> QED BY <1>1, <1>2, <1>3, <1>4, <1>5, <1>6, <1>7, <1>8 DEF Next

\* Where one round is enough, when two linked nodes have nothing left to say to
\* each other neither has more work than the other: the node that lags has been
\* told of the better tip, has asked for it, or has been sent it, on that very
\* link, through drops, restarts, bans and blocks that are mined meanwhile.
THEOREM SyncedWithinRound == Spec => [](SyncsInOneRound(setup) => QuietMeansSynced)
<1>1. Init => NetInv /\ SpreadInv
  BY NetInitially, SpreadInitially DEF Init
<1>2. NetInv /\ SpreadInv /\ [Next]_vars => (NetInv /\ SpreadInv)'
  BY NetStep, SpreadStep
<1>3. NetInv /\ SpreadInv => (SyncsInOneRound(setup) => QuietMeansSynced)
  <2> SUFFICES ASSUME NetInv, LagsEnd, Quiet, NEW n \in Nodes, NEW m \in Peers(n)
               PROVE  CumWork[tip[n]] = CumWork[tip[m]]
    BY DEF QuietMeansSynced, SpreadInv
  <2>1. m \in Nodes /\ <<n, m>> \in Pairs /\ <<m, n>> \in Pairs /\ {n, m} \in links /\ {m, n} = {n, m}
    BY PeerEnds DEF NetInv, SyncInv
  <2>2. \A q \in Pairs : In(q) = {}
    BY RangeOne DEF Quiet, In
  <2>3. PICK x \in Nat, y \in Nat : x = CumWork[tip[n]] /\ y = CumWork[tip[m]]
    BY <2>1, TipWork DEF NetInv, SyncInv
  <2>4. ~ CatchesUp(<<n, m>>) /\ ~ CatchesUp(<<m, n>>)
    BY <2>1, <2>2 DEF CatchesUp
  <2>5. ~ (x < y) /\ ~ (y < x)
    BY <2>1, <2>3, <2>4 DEF LagsEnd
  <2> QED BY <2>3, <2>5
<1> QED BY <1>1, <1>2, <1>3, PTL DEF Spec
=============================================================================
