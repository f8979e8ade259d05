------------------------------ MODULE MCRules -------------------------------
(***************************************************************************)
(* Instances of the six parts that share no state with each other:         *)
(* Difficulty, Emission, Merkle, Wire, MinerLoop and PeerLocks.  A         *)
(* behaviour explores one of them and leaves the others at rest.           *)
(*                                                                         *)
(* Difficulty is scaled down to bytes of 2 bits, targets of 12 bits and    *)
(* fractions of 4 bits, with the cubic of asert.rs rescaled to them.  The  *)
(* times reach from a chain so fast that the target falls to 1 to one so   *)
(* slow that the 2*12-bit product would overflow.  Emission runs until no  *)
(* subsidy is left.  The lists of Wire reach their maxima.                 *)
(***************************************************************************)
EXTENDS Difficulty, Emission, Merkle, Wire, MinerLoop, MCLocks

\* The thread sets of this instance meet the hypothesis of LocksNeverCircle.
ASSUME DeploymentsAssumption == OneLockOrder

VARIABLE rule      \* the part this behaviour explores

Clock == 1..3 \cup {8, 9, 13, 14, 17, 18, 19, 22, 26, 27, 28, 33, 70}
Cubic == <<2849, 58, 1>>

Pkh      == <<0, <<0, 2>>>>
Timelock == <<1, <<<<1, 0>>, 2>>>>

TxBody(ins, outs, data) == <<<<<<<<1, ins>>, outs>>, 0>>, data>>

InputsOf(b) == b[1][1][1][2]

Reward  == TxBody(<<>>, <<<<2, Pkh>>>>, <<1>>)
Spend   == TxBody(<<<<1, 0>>>>, <<>>, <<>>)
Sweep   == TxBody(<<<<1, 0>>, <<2, 1>>>>, <<<<1, Timelock>>>>, <<>>)
MCTxs   == {<<Reward, <<>>>>, <<Spend, <<<<<<1>>, <<0, 2>>>>>>>>,
            <<Sweep, <<<<<<>>, <<1>>>>, <<<<1>>, <<>>>>>>>>}

BlockOf(txs) == <<<<<<<<<<<<<<1, 0>>, 1>>, 2>>, 3>>, 1>>, 0>>, txs>>
MCBlocks     == {BlockOf(<<>>), BlockOf(<<<<Reward, <<>>>>>>)}

MCMessages ==
    {<<1, <<<<<<<<1, 0>>, 2>>, 3>>, <<1, 2>>>>>>, <<2, 0>>, <<3, 1>>,
     <<4, <<<<1, 2>>, <<>>>>>>, <<5, <<<<>>, <<2, 1>>>>>>, <<6, <<1, 0>>>>,
     <<9, <<>>>>, <<10, <<<<1, 2>>, <<3, 0>>>>>>}
        \cup {<<7, b>> : b \in MCBlocks} \cup {<<8, t>> : t \in MCTxs}

MCTransfers == [as : {"tx"}, value : MCTxs] \cup [as : {"block"}, value : MCBlocks]
                  \cup [as : {"message"}, value : MCMessages]

\* Bodies of several inputs, outputs and both locks, for each input and for
\* outputs that differ in amount, scheme, lock and height.
MCSigned ==
    LET bodies == {TxBody(ins, outs, <<>>) :
                      ins \in {<<<<1, 0>>>>, <<<<1, 0>>, <<0, 1>>>>},
                      outs \in {<<>>, <<<<1, Pkh>>>>, <<<<1, Timelock>>, <<0, Pkh>>>>}}
        spent  == {0, 1} \X ({<<0, <<s, k>>>> : s \in {0, 1}, k \in {0, 1}}
                                \cup {<<1, <<<<s, k>>, h>>>> : s \in {0, 1}, k \in {0, 1}, h \in {0, 1}})
    IN  {signed \in bodies \X {0, 1} \X spent : signed[2] < Len(InputsOf(signed[1]))}

Parts == {"difficulty", "emission", "merkle", "wire", "miner", "locks"}

AtRest(part) ==
    CASE part = "difficulty" -> times = <<0>>
      [] part = "emission" -> next_height = 0 /\ issued = 0
      [] part = "merkle" -> honest = <<>> /\ body = <<>> /\ connected = <<>>
      [] part = "wire" -> origin = [as |-> "none"] /\ bytes = <<>> /\ edits = 0
      [] part = "miner" -> /\ command = "none" /\ works = <<>> /\ height = 0
                           /\ ctx_epoch = NoEpoch /\ rig = "cpu"
                           /\ template = NoBlock /\ mined = NoBlock
      [] part = "locks" -> running = {} /\ todo = <<>> /\ taken = <<>>

Rests(part) ==
    CASE part = "difficulty" -> UNCHANGED times
      [] part = "emission" -> UNCHANGED emissionVars
      [] part = "merkle" -> UNCHANGED merkleVars
      [] part = "wire" -> UNCHANGED wireVars
      [] part = "miner" -> UNCHANGED minerVars
      [] part = "locks" -> UNCHANGED lockVars

Init ==
    /\ rule \in Parts
    /\ \/ rule = "difficulty" /\ DifficultyInit
       \/ rule = "emission" /\ EmissionInit
       \/ rule = "merkle" /\ MerkleInit
       \/ rule = "wire" /\ WireInit
       \/ rule = "miner" /\ MinerInit
       \/ rule = "locks" /\ LocksInit
    /\ \A part \in Parts \ {rule} : AtRest(part)

Next ==
    /\ \/ rule = "difficulty" /\ DifficultyNext
       \/ rule = "emission" /\ Issue
       \/ rule = "merkle" /\ MerkleNext
       \/ rule = "wire" /\ Edit
       \/ rule = "miner" /\ MinerNext
       \/ rule = "locks" /\ LocksNext
    /\ \A part \in Parts \ {rule} : Rests(part)
    /\ UNCHANGED rule

Spec == Init /\ [][Next]_<<times, emissionVars, merkleVars, wireVars, minerVars, lockVars, rule>>
=============================================================================
