------------------------------ MODULE TxRelay -------------------------------
(***************************************************************************)
(* A network of honest nodes: the block synchronisation of PeerSync and    *)
(* the relay of transactions (submit_tx and the Inv, GetData and Tx        *)
(* handlers of net/src/node.rs) with the bans of misbehave.                *)
(*                                                                         *)
(* A transaction spends one output.  It is valid at a tip iff the block    *)
(* that created the output is on the tip's path and no block there         *)
(* confirms a spender of it.  All fees are sufficient and no pool is full: *)
(* NodeState has those answers of Mempool::insert.  An Inv or GetData      *)
(* message of the code lists blocks or transactions, never both; here      *)
(* these are messages of two types.                                        *)
(***************************************************************************)
EXTENDS PeerSync

CONSTANTS
    Txs,
    COIN,       \* transaction -> the block that created the output it spends
    CONFIRMS    \* block -> the transactions it includes

ASSUME RelayAssumption ==
    /\ COIN \in [Txs -> Blocks]
    /\ CONFIRMS \in [Blocks -> SUBSET Txs]
    /\ \A s \in Setups : s.txs \subseteq Txs

VARIABLES
    pool,       \* node -> the transactions of its mempool
    banned,     \* <<node, peer>>: node has banned the address of peer
    submitted,  \* transactions a wallet has submitted: each once (bound)
    offered     \* history: link -> transactions announced on it, less those
                \* of which an end dropped one it held, or a rival, since

relayVars == <<pool, banned, submitted, offered>>
vars      == <<syncVars, relayVars>>

-----------------------------------------------------------------------------
\* One output of each block is spent at all.
Rivals(t) == {u \in Txs \ {t} : COIN[u] = COIN[t]}

\* validate_standalone_tx at the tip b.
ValidAt(b, t) ==
    /\ COIN[t] \in Range(PathTo[b])
    /\ \A c \in Range(PathTo[b]) : CONFIRMS[c] \cap ({t} \cup Rivals(t)) = {}

\* Mempool::insert, in the order of its early returns.
Verdict(n, t) ==
    CASE t \in pool[n]                -> "duplicate"
      [] Rivals(t) \cap pool[n] # {}  -> "conflict"
      [] OTHER -> IF ValidAt(tip[n], t) THEN "ok" ELSE "invalid"

InvTx(t) == [type |-> "InvTx", tx |-> t]
GetTx(t) == [type |-> "GetTx", tx |-> t]
Tx(t)    == [type |-> "Tx", tx |-> t]

\* A faulty variant: only a node's own transactions are announced.
GossipOwnOnly(n, t, from) ==
    [p \in Pairs |-> IF p[1] = n /\ p[2] \in Peers(n) /\ from = {} THEN <<InvTx(t)>>
                     ELSE <<>>]

\* broadcast of a transaction's Inv to every peer but the one it came from.
Gossip(n, t, from) ==
    [p \in Pairs |-> IF p[1] = n /\ p[2] \in Peers(n) \ from THEN <<InvTx(t)>> ELSE <<>>]

Offer(n, t, from) ==
    [l \in Topology |-> IF \E m \in Peers(n) \ from : l = {n, m}
                        THEN offered[l] \cup {t} ELSE offered[l]]

\* What the pools become when a block connects (update_for_block).  A node
\* does not ask again for what it dropped or had no place for beside it: such
\* offers are void.
PoolsFollowTips ==
    LET dropped == [n \in Nodes |-> IF tip'[n] = tip[n] THEN {}
                                    ELSE {t \in pool[n] : ~ValidAt(tip'[n], t)}]
        void(n) == {t \in Txs : ({t} \cup Rivals(t)) \cap dropped[n] # {}}
    IN  /\ pool' = [n \in Nodes |-> pool[n] \ dropped[n]]
        /\ offered' = [l \in Topology |-> offered[l] \ UNION {void(n) : n \in l}]

-----------------------------------------------------------------------------
\* NetNode::submit_tx of a transaction that is admitted; a refused one
\* changes nothing.
SubmitTx(n, t) ==
    /\ t \in setup.txs \ submitted
    /\ Verdict(n, t) = "ok"
    /\ pool' = [pool EXCEPT ![n] = @ \cup {t}]
    /\ chan' = [p \in Pairs |-> chan[p] \o Gossip(n, t, {})[p]]
    /\ submitted' = submitted \cup {t}
    /\ offered' = Offer(n, t, {})
    /\ UNCHANGED <<setup, known, tip, links, requested, saved, faults, banned>>

OnInvTx(n, m) ==
    /\ Receives(n, m, "InvTx")
    /\ LET t == Msg(n, m).tx
       IN  chan' = Deliver(<<m, n>>,
                     IF t \notin pool[n] THEN Reply(n, m, <<GetTx(t)>>) ELSE Silence)
    /\ UNCHANGED <<setup, known, tip, links, requested, saved, faults, relayVars>>

OnGetTx(n, m) ==
    /\ Receives(n, m, "GetTx")
    /\ LET t == Msg(n, m).tx
       IN  chan' = Deliver(<<m, n>>,
                     IF t \in pool[n] THEN Reply(n, m, <<Tx(t)>>) ELSE Silence)
    /\ UNCHANGED <<setup, known, tip, links, requested, saved, faults, relayVars>>

\* A Tx message that is admitted, or dropped without a penalty.
OnTx(n, m) ==
    /\ Receives(n, m, "Tx")
    /\ LET t == Msg(n, m).tx
           v == Verdict(n, t)
       IN  /\ v # "invalid"
           /\ pool' = [pool EXCEPT ![n] = IF v = "ok" THEN @ \cup {t} ELSE @]
           /\ chan' = Deliver(<<m, n>>, IF v = "ok" THEN Gossip(n, t, {m}) ELSE Silence)
           /\ offered' = IF v = "ok" THEN Offer(n, t, {m}) ELSE offered
    /\ UNCHANGED <<setup, known, tip, links, requested, saved, faults, banned, submitted>>

\* MempoolError::Invalid: the handler fails, run_peer bans and disconnects.
OnInvalidTx(n, m) ==
    /\ Receives(n, m, "Tx")
    /\ Verdict(n, Msg(n, m).tx) = "invalid"
    /\ banned' = banned \cup {<<n, m>>}
    /\ Close({{n, m}})
    /\ offered' = [offered EXCEPT ![{n, m}] = {}]
    /\ UNCHANGED <<setup, known, tip, saved, faults, pool, submitted>>

\* BAN_DURATION has passed.
BanEnds(n, m) ==
    /\ <<n, m>> \in banned
    /\ banned' = banned \ {<<n, m>>}
    /\ UNCHANGED <<syncVars, pool, submitted, offered>>

\* Some handler of node n takes the next message of m.
Receive(n, m) ==
    \/ Handle(n, m) /\ PoolsFollowTips /\ UNCHANGED <<banned, submitted>>
    \/ OnInvTx(n, m) \/ OnGetTx(n, m) \/ OnTx(n, m) \/ OnInvalidTx(n, m)

\* The miner's template is made from its pool.
MineFromPool(n, b) ==
    /\ CONFIRMS[b] \subseteq pool[n]
    /\ Mine(n, b)
    /\ PoolsFollowTips
    /\ UNCHANGED <<banned, submitted>>

\* A faulty variant: the pool is offered to every new peer.
DialOffersPool(n, m) ==
    /\ {<<n, m>>, <<m, n>>} \cap banned = {}
    /\ {n, m} \notin links
    /\ links' = links \cup {{n, m}}
    /\ chan' = [chan EXCEPT ![<<n, m>>] = <<Hello(n)>> \o SetToSeq({InvTx(t) : t \in pool[n]}),
                            ![<<m, n>>] = <<Hello(m)>> \o SetToSeq({InvTx(t) : t \in pool[m]})]
    /\ UNCHANGED <<setup, known, tip, requested, saved, faults, relayVars>>

\* Neither dial nor the accept loop lets a banned address in.
Dial(n, m) ==
    /\ {<<n, m>>, <<m, n>>} \cap banned = {}
    /\ Connect(n, m)
    /\ UNCHANGED relayVars

LinkBreaks(n, m) ==
    /\ Drop(n, m)
    /\ offered' = [offered EXCEPT ![{n, m}] = {}]
    /\ UNCHANGED <<pool, banned, submitted>>

\* Pool and bans are kept in memory only.
Restart(n) ==
    /\ Crash(n)
    /\ pool' = [pool EXCEPT ![n] = {}]
    /\ banned' = {p \in banned : p[1] # n}
    /\ offered' = [l \in Topology |-> IF n \in l THEN {} ELSE offered[l]]
    /\ UNCHANGED submitted

Init ==
    /\ SyncInit
    /\ pool = [n \in Nodes |-> {}]
    /\ banned = {}
    /\ submitted = {}
    /\ offered = [l \in Topology |-> {}]

Next ==
    \/ \E n \in Nodes, t \in Txs : SubmitTx(n, t)
    \/ \E n \in Nodes, b \in Blocks : MineFromPool(n, b)
    \/ \E p \in Pairs : \/ Receive(p[1], p[2]) \/ Dial(p[1], p[2])
                       \/ LinkBreaks(p[1], p[2]) \/ BanEnds(p[1], p[2])
    \/ \E n \in Nodes : Restart(n)

(***************************************************************************)
(* Fairness: reader threads keep reading what writer threads keep sending, *)
(* the dialer keeps redialling the addresses of its book, and a ban ends   *)
(* after a day.  Nothing is assumed of miners, wallets and failures.       *)
(***************************************************************************)
Fairness ==
    \A p \in Pairs : /\ WF_vars(Receive(p[1], p[2]))
                     /\ WF_vars(Dial(p[1], p[2]))
                     /\ WF_vars(BanEnds(p[1], p[2]))

Spec == Init /\ [][Next]_vars /\ Fairness

-----------------------------------------------------------------------------
(***************************************************************************)
(* Properties.                                                             *)
(***************************************************************************)
\* Once blocks stop being mined and links stay up, all nodes end up on tips
\* of equal work, whoever banned whom for a while and whoever restarted from
\* an old chain file.
Converges == <>[](\A n, m \in Nodes : CumWork[tip[n]] = CumWork[tip[m]])

\* Announcements, requests and answers die out: no transaction or block goes
\* round the network for ever.
GossipEnds == <>[]Quiet

\* When nothing is in flight, a transaction that was offered on a link and
\* that one end holds is held by the other end too, or a rival of it is, unless
\* one of them dropped it or its rival since the offer.
OfferedIsShared ==
    Quiet => \A n \in Nodes : \A m \in Peers(n) : \A t \in offered[{n, m}] \cap pool[n] :
                ({t} \cup Rivals(t)) \cap pool[m] # {}

\* An honest node is never banned: a peer drops a transaction it cannot use
\* "without penalizing the peer".
HonestNeverBanned == banned = {}
=============================================================================
