------------------------------ MODULE PeerSync ------------------------------
(***************************************************************************)
(* Block announcement and chain synchronisation between honest nodes:      *)
(* run_peer and the Hello, GetBlocks, Inv, GetData and Block handlers of   *)
(* net/src/node.rs, with locator and hashes_after_locator of chain.rs.     *)
(*                                                                         *)
(* A link is a TCP connection with one reader thread per side: messages    *)
(* arrive in order and are handled one at a time; a broken connection      *)
(* loses what was in flight.  The chain of a node is abstracted to what    *)
(* ForkChoice promises: the blocks it knows and its tip, whose path from   *)
(* genesis is the active chain.  All blocks are valid, so the only errors  *)
(* of add_block that occur are Duplicate and UnknownParent.                *)
(* TxRelay composes these handlers with those of transactions and states   *)
(* the specification of the network.                                       *)
(***************************************************************************)
EXTENDS BlockTree, FiniteSets, SequencesExt

CONSTANTS
    Nodes,
    Topology,          \* the pairs of nodes that may connect
    Setups,            \* networks to start from: the tip each node has saved,
                       \* the blocks that may be mined, the transactions that
                       \* may be submitted, how many connections may break
                       \* and how many processes crash (bounds of the model)
    BLOCKS_PER_ROUND,  \* 500: hashes announced per GetBlocks
    LOCATOR_DENSE,     \* 10: locator entries before the steps double
    SAVE_INTERVAL      \* 32: the chain file is rewritten at these heights

ASSUME SyncAssumption ==
    /\ \A s \in Setups : /\ s.start \in [Nodes -> Blocks]
                         /\ s.mine \subseteq Blocks \ {Genesis}
                         /\ s.drops \in Nat /\ s.crashes \in Nat
    /\ \A l \in Topology : l \subseteq Nodes /\ Cardinality(l) = 2
    /\ BLOCKS_PER_ROUND \in Nat \ {0}
    /\ LOCATOR_DENSE \in Nat \ {0}
    /\ SAVE_INTERVAL \in Nat \ {0}

\* A block commits to its parent's hash: every path ends at genesis.
ASSUME PathAssumption ==
    /\ \A b \in Blocks : PathTo[b] \in Seq(Blocks)
    /\ PathTo[Genesis] = <<Genesis>>
    /\ \A b \in Blocks \ {Genesis} : /\ PREV[b] \in Blocks
                                    /\ PathTo[b] = Append(PathTo[PREV[b]], b)

\* For the same reason the recursion of the work along it ends.
ASSUME CumWorkAssumption ==
    /\ CumWork[Genesis] = BLOCK_WORK[Genesis]
    /\ \A b \in Blocks \ {Genesis} : CumWork[b] = CumWork[PREV[b]] + BLOCK_WORK[b]

VARIABLES
    setup,      \* the element of Setups that was chosen
    known,      \* node -> hashes in `all`
    tip,        \* node -> tip_hash
    links,      \* connected pairs of nodes
    chan,       \* <<from, to>> -> messages queued or on the wire
    requested,  \* <<node, peer>> -> PeerState.requested_blocks
    saved,      \* node -> the tip of its chain file
    drops, crashes

syncVars == <<setup, known, tip, links, chan, requested, saved, drops, crashes>>
faults   == <<drops, crashes>>

Pairs == {p \in Nodes \X Nodes : {p[1], p[2]} \in Topology}

Peers(n)  == {m \in Nodes : {n, m} \in links}
Active(n) == PathTo[tip[n]]
Height(n) == Len(Active(n)) - 1

-----------------------------------------------------------------------------
(***************************************************************************)
(* ChainState::locator: the tip and its ancestors, one apart for the first *)
(* LOCATOR_DENSE entries, then doubling, and always genesis.  The answer   *)
(* uses the first entry it has on its own active chain, which is the       *)
(* highest one, so the locator may be kept as a set.                       *)
(***************************************************************************)
LocatorHeights(h) ==
    LET step[k \in 0..h] == IF k < LOCATOR_DENSE THEN 1 ELSE 2 * step[k - 1]
        at[k \in 0..h]   == IF k = 0 THEN h ELSE at[k - 1] - step[k]
    IN  {0} \cup {x \in {at[k] : k \in 0..h} : x > 0}

Locator(t) == {PathTo[t][h + 1] : h \in LocatorHeights(Len(PathTo[t]) - 1)}

\* A faulty variant: the fork point itself is announced.
HashesAfterIncludesFork(n, locator) ==
    LET common == {i \in DOMAIN Active(n) : Active(n)[i] \in locator}
        fork   == CHOOSE i \in common : \A j \in common : j <= i
        last   == IF Len(Active(n)) < fork + BLOCKS_PER_ROUND - 1 THEN Len(Active(n))
                  ELSE fork + BLOCKS_PER_ROUND - 1
    IN  SubSeq(Active(n), fork, last)

\* hashes_after_locator: what follows the fork point on the active chain.
HashesAfter(n, locator) ==
    LET common == {i \in DOMAIN Active(n) : Active(n)[i] \in locator}
        fork   == CHOOSE i \in common : \A j \in common : j <= i
        last   == IF Len(Active(n)) < fork + BLOCKS_PER_ROUND THEN Len(Active(n))
                  ELSE fork + BLOCKS_PER_ROUND
    IN  SubSeq(Active(n), fork + 1, last)

-----------------------------------------------------------------------------
Hello(n)           == [type |-> "Hello", height |-> Height(n), tip |-> tip[n]]
GetBlocks(t)       == [type |-> "GetBlocks", locator |-> Locator(t)]
Inv(hashes)        == [type |-> "Inv", blocks |-> hashes]
GetData(hashes)    == [type |-> "GetData", blocks |-> hashes]
Block(b)           == [type |-> "Block", block |-> b]

\* out: channel -> messages a handler sends there, in order.
Deliver(c, out) ==
    [p \in Pairs |-> (IF p = c THEN Tail(chan[p]) ELSE chan[p]) \o out[p]]

Silence         == [p \in Pairs |-> <<>>]
Reply(n, m, ms) == [Silence EXCEPT ![<<n, m>>] = ms]

\* The message at the head of the channel from m to n, of a given type.
Receives(n, m, type) ==
    /\ m \in Peers(n)
    /\ chan[<<m, n>>] # <<>>
    /\ Head(chan[<<m, n>>]).type = type

Msg(n, m) == Head(chan[<<m, n>>])

\* Ask for blocks only if the peer is higher and its tip is not known.
OnHello(n, m) ==
    /\ Receives(n, m, "Hello")
    /\ LET behind == /\ Msg(n, m).height > Height(n)
                     /\ Msg(n, m).tip \notin known[n]
       IN  chan' = Deliver(<<m, n>>,
                     IF behind THEN Reply(n, m, <<GetBlocks(tip[n])>>) ELSE Silence)
    /\ UNCHANGED <<setup, known, tip, links, requested, saved, faults>>

OnGetBlocks(n, m) ==
    /\ Receives(n, m, "GetBlocks")
    /\ LET hashes == HashesAfter(n, Msg(n, m).locator)
       IN  chan' = Deliver(<<m, n>>,
                     IF hashes # <<>> THEN Reply(n, m, <<Inv(hashes)>>) ELSE Silence)
    /\ UNCHANGED <<setup, known, tip, links, requested, saved, faults>>

\* The entries of a list that are in a set, in their order.
Filter(list, set) ==
    LET kept[i \in 0..Len(list)] ==
            IF i = 0 THEN <<>>
            ELSE IF list[i] \in set THEN Append(kept[i - 1], list[i]) ELSE kept[i - 1]
    IN  kept[Len(list)]

Wanted(n, m, hashes) == Filter(hashes, Blocks \ (known[n] \cup requested[<<n, m>>]))

OnInv(n, m) ==
    /\ Receives(n, m, "Inv")
    /\ LET want == Wanted(n, m, Msg(n, m).blocks)
       IN  /\ requested' = [requested EXCEPT ![<<n, m>>] = @ \cup Range(want)]
           /\ chan' = Deliver(<<m, n>>,
                        IF want # <<>> THEN Reply(n, m, <<GetData(want)>>) ELSE Silence)
    /\ UNCHANGED <<setup, known, tip, links, saved, faults>>

OnGetData(n, m) ==
    /\ Receives(n, m, "GetData")
    /\ LET have == Filter(Msg(n, m).blocks, known[n])
       IN  chan' = Deliver(<<m, n>>, Reply(n, m, [i \in DOMAIN have |-> Block(have[i])]))
    /\ UNCHANGED <<setup, known, tip, links, requested, saved, faults>>

NewTip(n, b) == IF CumWork[b] > CumWork[tip[n]] THEN b ELSE tip[n]

\* A faulty variant: a new tip is not announced.
AnnounceToNobody(n, b, from) == Silence

\* accept_block announces a new tip to every peer but the one it came from.
Announce(n, b, from) ==
    [p \in Pairs |-> IF p[1] = n /\ p[2] \in Peers(n) \ from /\ NewTip(n, b) = b
                     THEN <<Inv(<<b>>)>> ELSE <<>>]

\* accept_block: a new tip at a multiple of SAVE_INTERVAL is saved.
Connects(n, b) ==
    /\ known' = [known EXCEPT ![n] = @ \cup {b}]
    /\ tip' = [tip EXCEPT ![n] = NewTip(n, b)]
    /\ saved' = IF NewTip(n, b) = b /\ (Len(PathTo[b]) - 1) % SAVE_INTERVAL = 0
                THEN [saved EXCEPT ![n] = b] ELSE saved

\* A faulty variant: a block that arrived stays requested.
RequestedAfterKeeps(n, m, b) == requested[<<n, m>>]

RequestedAfter(n, m, b) == requested[<<n, m>>] \ {b}

\* A block that connects; the next batch is asked for when this one is complete.
OnBlock(n, m) ==
    /\ Receives(n, m, "Block")
    /\ LET b    == Msg(n, m).block
           left == RequestedAfter(n, m, b)
       IN  /\ b \notin known[n] /\ PREV[b] \in known[n]
           /\ Connects(n, b)
           /\ requested' = [requested EXCEPT ![<<n, m>>] = left]
           /\ chan' = Deliver(<<m, n>>,
                        [Announce(n, b, {m}) EXCEPT ![<<n, m>>] =
                           IF left = {} THEN <<GetBlocks(NewTip(n, b))>> ELSE <<>>])
    /\ UNCHANGED <<setup, links, faults>>

\* UnknownParent: forget the batch and sync from the fork point.
OnOrphan(n, m) ==
    /\ Receives(n, m, "Block")
    /\ LET b == Msg(n, m).block
       IN  b \notin known[n] /\ PREV[b] \notin known[n]
    /\ requested' = [requested EXCEPT ![<<n, m>>] = {}]
    /\ chan' = Deliver(<<m, n>>, Reply(n, m, <<GetBlocks(tip[n])>>))
    /\ UNCHANGED <<setup, known, tip, links, saved, faults>>

\* Duplicate: nothing but the bookkeeping.
OnDuplicate(n, m) ==
    /\ Receives(n, m, "Block")
    /\ LET b == Msg(n, m).block
       IN  /\ b \in known[n]
           /\ requested' = [requested EXCEPT ![<<n, m>>] = RequestedAfter(n, m, b)]
    /\ chan' = Deliver(<<m, n>>, Silence)
    /\ UNCHANGED <<setup, known, tip, links, saved, faults>>

Handle(n, m) ==
    \/ OnHello(n, m) \/ OnGetBlocks(n, m) \/ OnInv(n, m) \/ OnGetData(n, m)
    \/ OnBlock(n, m) \/ OnOrphan(n, m) \/ OnDuplicate(n, m)

-----------------------------------------------------------------------------
\* A node mines a block on its tip (submit_block).
Mine(n, b) ==
    /\ b \in setup.mine
    /\ \A m \in Nodes : b \notin known[m]
    /\ PREV[b] = tip[n]
    /\ Connects(n, b)
    /\ chan' = [p \in Pairs |-> chan[p] \o Announce(n, b, {})[p]]
    /\ UNCHANGED <<setup, links, requested, faults>>

\* A connection comes up; run_peer greets on both sides.
Connect(n, m) ==
    /\ {n, m} \notin links
    /\ links' = links \cup {{n, m}}
    /\ chan' = [chan EXCEPT ![<<n, m>>] = <<Hello(n)>>, ![<<m, n>>] = <<Hello(m)>>]
    /\ UNCHANGED <<setup, known, tip, requested, saved, faults>>

\* Connections end: both sides lose their PeerState and what was in flight.
Close(gone) ==
    /\ links' = links \ gone
    /\ chan' = [p \in Pairs |-> IF {p[1], p[2]} \in gone THEN <<>> ELSE chan[p]]
    /\ requested' = [p \in Pairs |-> IF {p[1], p[2]} \in gone THEN {} ELSE requested[p]]

Drop(n, m) ==
    /\ {n, m} \in links
    /\ drops < setup.drops
    /\ drops' = drops + 1
    /\ Close({{n, m}})
    /\ UNCHANGED <<setup, known, tip, saved, crashes>>

\* The process ends and is started again: load_state knows the saved chain only.
Crash(n) ==
    /\ crashes < setup.crashes
    /\ crashes' = crashes + 1
    /\ known' = [known EXCEPT ![n] = Range(PathTo[saved[n]])]
    /\ tip' = [tip EXCEPT ![n] = saved[n]]
    /\ Close({{n, m} : m \in Peers(n)})
    /\ UNCHANGED <<setup, saved, drops>>

SyncInit ==
    /\ setup \in Setups
    /\ known = [n \in Nodes |-> Range(PathTo[setup.start[n]])]
    /\ tip = setup.start
    /\ links = {}
    /\ chan = [p \in Pairs |-> <<>>]
    /\ requested = [p \in Pairs |-> {}]
    /\ saved = setup.start
    /\ drops = 0 /\ crashes = 0

-----------------------------------------------------------------------------
(***************************************************************************)
(* Properties.                                                             *)
(***************************************************************************)
InFlight(p, type) == {chan[p][i] : i \in {j \in DOMAIN chan[p] : chan[p][j].type = type}}

\* A block a node waits for is really on its way: its request or the block
\* itself is in flight on that link.  Otherwise requested_blocks would never
\* become empty and the node would never ask for the next batch.
RequestsAreInFlight ==
    \A p \in Pairs : \A b \in requested[p] :
        \/ \E g \in InFlight(p, "GetData") : b \in Range(g.blocks)
        \/ Block(b) \in InFlight(<<p[2], p[1]>>, "Block")

Quiet == \A p \in Pairs : chan[p] = <<>>

\* When two linked nodes have nothing left to say to each other, they agree
\* on the work of the best chain: the requester re-requests until synced.
QuietMeansSynced ==
    Quiet => \A n \in Nodes : \A m \in Peers(n) : CumWork[tip[n]] = CumWork[tip[m]]

(***************************************************************************)
(* Where the code keeps that promise: a Hello compares heights, and a      *)
(* second round does not always follow the first.                          *)
(***************************************************************************)
Existing(s) == s.mine \cup UNION {Range(PathTo[s.start[n]]) : n \in Nodes}

\* The tips a node may have: work never falls below what it has saved.
Tips(s, n) == {b \in Existing(s) : CumWork[b] >= CumWork[s.start[n]]}

\* Of two chains the one with more work is the longer one.
MoreWorkIsHigher(s) ==
    \A a, b \in Existing(s) : CumWork[a] > CumWork[b] => Len(PathTo[a]) > Len(PathTo[b])

\* From a block that its locator names, a node reaches any tip a peer may have
\* in one round.
WithinRound(s) ==
    \A p \in Pairs : \A a \in Tips(s, p[1]), b \in Tips(s, p[2]) :
        \E i \in DOMAIN PathTo[b] : /\ PathTo[b][i] \in Locator(a)
                                    /\ Len(PathTo[b]) <= i + BLOCKS_PER_ROUND

SyncsInOneRound(s) == MoreWorkIsHigher(s) /\ WithinRound(s)
=============================================================================
