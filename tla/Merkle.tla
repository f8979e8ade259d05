------------------------------- MODULE Merkle -------------------------------
(***************************************************************************)
(* The two Merkle commitments of a header (core/src/merkle.rs, core/src/   *)
(* block.rs) and check_roots of node/src/chain.rs.  Hashes are the terms   *)
(* they are computed from: sha3 is taken to be injective and its domain    *)
(* tags are the first component of a term.                                 *)
(*                                                                         *)
(* A node is handed bodies for the header of an honest block.  A body that *)
(* passes check_roots is kept; whether its transactions are distinct is    *)
(* asked only when the block is connected, by validate_block_txs.          *)
(***************************************************************************)
EXTENDS Integers, Sequences, FiniteSets, SequencesExt

CONSTANTS
    TxIds,        \* a txid commits to the body of a transaction
    WitnessIds,   \* a witness hash commits to its witnesses
    MAX_TXS       \* bound on the transactions of a block

ASSUME MerkleAssumption == MAX_TXS \in Nat \ {0}

VARIABLES
    honest,       \* the transactions the header was made for
    body,         \* the last body that passed check_roots
    connected     \* the last body that was connected

merkleVars == <<honest, body, connected>>

Transactions == [txid : TxIds, witness : WitnessIds]
Bodies       == BoundedSeq(Transactions, MAX_TXS)

-----------------------------------------------------------------------------
Leaf(hash) == <<"leaf", hash>>
Node(l, r) == <<"node", l, r>>

\* A layer of odd length repeats its last hash.
Padded(layer) == IF Len(layer) % 2 = 1 THEN Append(layer, Last(layer)) ELSE layer

Pairs(layer) ==
    [i \in 1..((Len(layer) + 1) \div 2) |->
        Node(Padded(layer)[2 * i - 1], Padded(layer)[2 * i])]

MerkleRoot(leaves) ==
    LET layer[n \in 0..Len(leaves)] ==
            IF n = 0 THEN [i \in DOMAIN leaves |-> Leaf(leaves[i])]
            ELSE IF Len(layer[n - 1]) > 1 THEN Pairs(layer[n - 1]) ELSE layer[n - 1]
    IN  IF leaves = <<>> THEN <<"empty">> ELSE layer[Len(leaves)][1]

TxRoot(txs)      == MerkleRoot([i \in DOMAIN txs |-> txs[i].txid])
WitnessRoot(txs) == MerkleRoot([i \in DOMAIN txs |-> txs[i].witness])

\* The header of the honest block.
Header == [tx_root |-> TxRoot(honest), witness_root |-> WitnessRoot(honest)]

CheckRoots(header, txs) ==
    /\ header.tx_root = TxRoot(txs)
    /\ header.witness_root = WitnessRoot(txs)

-----------------------------------------------------------------------------
\* A faulty variant: transactions may be repeated.
DistinctNotAsked(txs) == TRUE

\* validate_block_txs: no txid twice.
Distinct(txs) == \A i, j \in DOMAIN txs : txs[i].txid = txs[j].txid => i = j

IsHonest(txs) == txs # <<>> /\ Cardinality({txs[i].txid : i \in DOMAIN txs}) = Len(txs)

MerkleInit == /\ honest \in {b \in Bodies : IsHonest(b)}
              /\ body = <<>> /\ connected = <<>>

Receive(txs) == /\ CheckRoots(Header, txs)
                /\ body' = txs
                /\ UNCHANGED <<honest, connected>>

Connect == /\ body # <<>> /\ Distinct(body)
           /\ connected' = body
           /\ UNCHANGED <<honest, body>>

MerkleNext == (\E txs \in Bodies : Receive(txs)) \/ Connect

MerkleSpec == MerkleInit /\ [][MerkleNext]_merkleVars

-----------------------------------------------------------------------------
(***************************************************************************)
(* Properties.                                                             *)
(***************************************************************************)
\* A header binds its block, txids and witnesses, in their order.  Padding lets
\* a body that repeats transactions pass the two commitments; together with the
\* check for repeated txids only the honest body connects.
OnlyHonestConnects == connected \in {<<>>, honest}
=============================================================================
