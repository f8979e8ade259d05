------------------------------ MODULE MinerLoop ------------------------------
(***************************************************************************)
(* The two loops that mine blocks (cli/src/main.rs) and the search for a   *)
(* nonce on either rig (cli/src/mining.rs, pow/src/lib.rs, gpu/src/lib.rs  *)
(* and its kernel).  The proof-of-work function of an epoch is an          *)
(* arbitrary set of nonces that meet the target.                           *)
(*                                                                         *)
(* The loop of a running node takes a new template after every attempt,    *)
(* while blocks of peers move its tip, over the boundary of an epoch and   *)
(* back; that of `miner mine` stays with its template and has no peers.    *)
(***************************************************************************)
EXTENDS Naturals, FiniteSetsExt

CONSTANTS
    EPOCH_LENGTH,
    CHUNK,            \* nonces of one attempt
    NONCES,           \* 2^64 in the code
    TOP               \* bound of the model on heights

\* An attempt is counted in 64 bits, as a nonce is.
ASSUME MinerAssumption ==
    /\ {EPOCH_LENGTH, CHUNK, NONCES, TOP} \subseteq Nat \ {0}
    /\ CHUNK <= NONCES

VARIABLES
    command,      \* the loop that runs: "node" or "mine"
    works,        \* epoch -> the nonces that meet the target
    height,       \* of the tip
    ctx_epoch,    \* the epoch whose dataset the rig holds
    rig,          \* "gpu", or "cpu" where there is none
    template,     \* [height, nonce]: the block being mined, where to go on
    mined         \* the last block handed to the chain

minerVars == <<command, works, height, ctx_epoch, rig, template, mined>>

NoEpoch == TOP + 1           \* u64::MAX in the code
NoBlock == [height |-> 0]
Nonces  == 0..(NONCES - 1)
Epochs  == 0..(TOP \div EPOCH_LENGTH)

-----------------------------------------------------------------------------
EpochOfHeight(h) == h \div EPOCH_LENGTH

Wrapped(n) == n % NONCES
Window(start) == {Wrapped(start + i) : i \in 0..(CHUNK - 1)}

\* pow::mine counts from start.
CpuSearch(start) ==
    LET hits == {i \in 0..(CHUNK - 1) : Wrapped(start + i) \in works[ctx_epoch]}
    IN  IF hits = {} THEN {} ELSE {Wrapped(start + Min(hits))}

\* The threads leave the least hit in found, which held the last nonce; of a
\* window whose end wraps, nothing is taken.
GpuSearch(start) ==
    LET found == Min({NONCES - 1} \cup (works[ctx_epoch] \cap Window(start)))
    IN  {n \in {found} : n # NONCES - 1 /\ n >= start /\ n < Wrapped(start + CHUNK)}

Search(start) == IF rig = "gpu" THEN GpuSearch(start) ELSE CpuSearch(start)

\* A faulty variant: a context is only ever replaced by a later one.
NeedsLaterContext(epoch) == ctx_epoch = NoEpoch \/ epoch > ctx_epoch

NeedsContext(epoch) == epoch # ctx_epoch

-----------------------------------------------------------------------------
\* Blocks of peers: the tip with the most work may be lower than the last.
TipMoves == /\ command = "node"
            /\ height' \in 0..(TOP - 1)
            /\ UNCHANGED <<command, works, ctx_epoch, rig, template, mined>>

\* The template is built on the tip; its height decides the epoch.
TakeTemplate ==
    LET epoch == EpochOfHeight(height + 1)
    IN  /\ template = NoBlock /\ height < TOP
        /\ template' = [height |-> height + 1, nonce |-> 0]
        /\ mined' = NoBlock
        /\ IF NeedsContext(epoch) THEN ctx_epoch' = epoch /\ rig' \in {"gpu", "cpu"}
           ELSE UNCHANGED <<ctx_epoch, rig>>
        /\ UNCHANGED <<command, works, height>>

\* add_block, whose check_pow computes the epoch from the parent's height.  It
\* makes the block the tip unless peers' blocks have more work.
HandIn(nonce, found) ==
    /\ mined' = [height |-> template.height, nonce |-> nonce, found |-> found]
    /\ template' = NoBlock
    /\ height' \in IF nonce \notin works[EpochOfHeight(template.height)] THEN {height}
                   ELSE IF command = "mine" THEN {template.height}
                   ELSE {height, template.height}

Found == /\ template # NoBlock
         /\ \E n \in Search(template.nonce) : HandIn(n, TRUE)
         /\ UNCHANGED <<command, works, ctx_epoch, rig>>

\* try_mine advances the nonce of a template that the node then drops.
NotFound == /\ template # NoBlock
            /\ Search(template.nonce) = {}
            /\ template' = IF command = "node" THEN NoBlock
                           ELSE [template EXCEPT !.nonce = Wrapped(@ + CHUNK)]
            /\ UNCHANGED <<command, works, height, ctx_epoch, rig, mined>>

\* An error of the device: `miner mine` hands in the block as it is.
GpuFails == /\ template # NoBlock /\ rig = "gpu"
            /\ IF command = "mine" THEN HandIn(0, FALSE)
               ELSE template' = NoBlock /\ UNCHANGED <<height, mined>>
            /\ UNCHANGED <<command, works, ctx_epoch, rig>>

MinerInit ==
    /\ command \in {"node", "mine"}
    /\ works \in [Epochs -> SUBSET Nonces]
    /\ height = 0 /\ ctx_epoch = NoEpoch /\ rig = "cpu"
    /\ template = NoBlock /\ mined = NoBlock

MinerNext == TipMoves \/ TakeTemplate \/ Found \/ NotFound \/ GpuFails

MinerSpec == MinerInit /\ [][MinerNext]_minerVars

-----------------------------------------------------------------------------
(***************************************************************************)
(* Property.                                                               *)
(***************************************************************************)
\* A nonce that a rig has found is proof of work for the epoch its block is
\* checked in, although the rig keeps the dataset of an earlier template and
\* the tip may have gone on or back since; and it is the first such nonce,
\* whichever rig and however many attempts found it.
MinedIsWork ==
    mined # NoBlock /\ mined.found =>
        LET hits == works[EpochOfHeight(mined.height)]
        IN  mined.nonce \in hits /\ \A n \in hits : mined.nonce <= n
=============================================================================
