------------------------------- MODULE MCNet --------------------------------
(***************************************************************************)
(* Instances of TxRelay on one block tree: the branches x and y, blocks of *)
(* equal work, and z1, which confirms a transaction.                       *)
(***************************************************************************)
EXTENDS TxRelay

MCPREV ==
    [g |-> "none", x1 |-> "g", x2 |-> "x1", y1 |-> "g", y2 |-> "y1", y3 |-> "y2",
     z1 |-> "g"]

MCBlocks == DOMAIN MCPREV
MCWork   == [b \in MCBlocks |-> 1]

\* t and its rival u spend an output of genesis, v one of y1.
MCCoin     == [t |-> "g", u |-> "g", v |-> "y1"]
MCConfirms == [b \in MCBlocks |-> IF b = "z1" THEN {"t"} ELSE {}]

Triple == {"A", "B", "C"}
Hub    == {{"A", "B"}, {"A", "C"}}

\* A new node, which may mine x1, between two that have y2 and y1.
Forking ==
    [start |-> [A |-> "g", B |-> "y2", C |-> "y1"], mine |-> {"x1", "y3"},
     txs |-> {}, drops |-> 0, crashes |-> 0]

\* The same nodes, where a connection may break or a process may crash.
Breaking == [Forking EXCEPT !.mine = {"y3"}, !.drops = 1]
Crashing == [Forking EXCEPT !.mine = {"y3"}, !.crashes = 1]

\* Rival transactions are submitted while a block may confirm one of them.
Paying ==
    [start |-> [n \in Triple |-> "g"], mine |-> {"z1"},
     txs |-> {"t", "u"}, drops |-> 0, crashes |-> 0]

\* A transaction whose coin is on one of two branches.
Reorganising ==
    [start |-> [A |-> "y1", B |-> "x1", C |-> "y1"], mine |-> {"x2", "y2"},
     txs |-> {"v"}, drops |-> 0, crashes |-> 0]

MCSetups == {Forking, Breaking, Crashing, Paying, Reorganising}

\* Two nodes whose branches are longer than a round.
DeepFork ==
    [start |-> [A |-> "x2", B |-> "y3", C |-> "x2"], mine |-> {}, txs |-> {},
     drops |-> 0, crashes |-> 0]

\* No fork: a new node between one that has a full round and one that has more.
Staggered == [DeepFork EXCEPT !.start = [A |-> "g", B |-> "y2", C |-> "y3"]]

LongSetups == {DeepFork, Staggered}

\* Three nodes on genesis, all connected: one may mine what another submits.
Triangle  == {{"A", "B"}, {"A", "C"}, {"B", "C"}}
SameTip   ==
    [start |-> [n \in Triple |-> "g"], mine |-> {"z1"}, txs |-> {"t"}, drops |-> 0,
     crashes |-> 0]
SameSetup == {SameTip}

\* Networks of both kinds are explored: those that sync in one round, and others.
ASSUME OneRoundIsMet ==
    /\ \A s \in {Paying, Reorganising} : SyncsInOneRound(s)
    /\ \A s \in {Forking, DeepFork, Staggered} : ~SyncsInOneRound(s)
=============================================================================
