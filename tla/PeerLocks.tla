----------------------------- MODULE PeerLocks ------------------------------
(***************************************************************************)
(* The mutexes of net/src/node.rs `Shared` and the order in which each     *)
(* thread takes them.  An operation is a sequence of critical sections; a  *)
(* section is the sequence of mutexes taken one after the other and        *)
(* released together at its end.  Data is left out: only waiting matters.  *)
(***************************************************************************)
EXTENDS Integers, Sequences, FiniteSets

CONSTANTS
    Threads,       \* reader threads, miner, dialer, ...
    ROLE,          \* thread -> the operations it may run
    Deployments    \* sets of threads that may run together

\* accept_block: chain, on a new tip mempool, then broadcast's peers.
AcceptBlock   == <<<<"chain", "mempool">>, <<"peers">>>>
\* The Inv handler and the miner's template read chain and mempool together.
ReadBothSwap  == <<<<"mempool", "chain">>>>
ReadBoth      == <<<<"chain", "mempool">>>>
\* submit_tx and the Tx handler.
SubmitTx      == <<<<"chain", "mempool">>, <<"peers">>>>
\* The Block handler: accept_block, then a locator for GetBlocks.
HandleBlock   == AcceptBlock \o <<<<"chain">>>>
\* run_peer registers the peer and greets it.
StartPeer     == <<<<"peers">>, <<"chain">>>>
\* run_peer's clean-up, after misbehave when a handler failed.
EndPeer       == <<<<"scores">>, <<"banned">>, <<"peers">>, <<"connected">>>>
\* Hello from ourselves, and Hello from a peer that listens.
HandleSelf    == <<<<"self_addrs">>>>
HandleHello   == <<<<"book", "connected">>, <<"chain">>>>
\* Hello from a peer that does not listen (port 0).
HandleHelloNoPort == <<<<"chain">>>>
HandleGetAddr == <<<<"book">>>>
HandleAddr    == <<<<"book">>, <<"peers">>>>
HandleGetData == <<<<"chain">>, <<"mempool">>>>
HandleGetBlocks == <<<<"chain">>>>
\* The accept loop: is_banned, the inbound counters; later dec_inbound.
AcceptPeer    == <<<<"banned">>, <<"inbound">>>>
LeaveInbound  == <<<<"inbound">>>>
\* dial, and the discovery loop that picks candidates and dials them.
Dial          == <<<<"banned">>, <<"self_addrs">>, <<"connected">>>>
DialFailed    == <<<<"connected">>>>
Discover      == <<<<"peers">>, <<"connected", "self_addrs", "book">>>> \o Dial
\* mainnet_mining_wait_reason, then a template.
MineRound     == <<<<"peers">>, <<"chain">>>> \o ReadBoth

Reader  == {StartPeer, EndPeer, HandleSelf, HandleHello, HandleHelloNoPort,
            HandleGetAddr, HandleAddr, ReadBoth, HandleGetData, HandleGetBlocks, HandleBlock, SubmitTx}
Hidden  == Reader \ {HandleHello}     \* readers of peers that do not listen
Inbound == Reader \cup {LeaveInbound}
Accept  == {AcceptPeer}
Discoverer == {Discover, DialFailed}
Miner   == {MineRound, AcceptBlock}
Bridge  == {SubmitTx}

Operations == Reader \cup Inbound \cup Accept \cup Discoverer \cup Miner \cup Bridge
Mutexes    == {"chain", "mempool", "peers", "book", "connected", "self_addrs",
               "inbound", "scores", "banned"}

ASSUME RoleAssumption ==
    /\ ROLE \in [Threads -> SUBSET Operations]
    /\ \A op \in Operations : op \in Seq(Seq(Mutexes))
    /\ Deployments \subseteq SUBSET Threads

VARIABLES
    running,  \* the threads of this node
    todo,     \* thread -> the critical sections left, the current one first
    taken     \* thread -> how many mutexes of the current section it holds

lockVars == <<running, todo, taken>>

Idle(t)   == todo[t] = <<>>
Held(t)   == IF Idle(t) THEN {} ELSE {Head(todo[t])[i] : i \in 1..taken[t]}
Wants(t)  == IF Idle(t) \/ taken[t] = Len(Head(todo[t])) THEN {}
             ELSE {Head(todo[t])[taken[t] + 1]}

Begin(t) ==
    /\ Idle(t)
    /\ \E op \in ROLE[t] : todo' = [todo EXCEPT ![t] = op]
    /\ UNCHANGED <<running, taken>>

Free(m) == \A t \in Threads : m \notin Held(t)

Lock(t) ==
    /\ \E m \in Wants(t) : Free(m)
    /\ taken' = [taken EXCEPT ![t] = @ + 1]
    /\ UNCHANGED <<running, todo>>

\* The guards of the section go out of scope.
Unlock(t) ==
    /\ ~Idle(t) /\ Wants(t) = {}
    /\ todo' = [todo EXCEPT ![t] = Tail(@)]
    /\ taken' = [taken EXCEPT ![t] = 0]
    /\ UNCHANGED running

LocksInit == /\ running \in Deployments
             /\ todo = [t \in Threads |-> <<>>]
             /\ taken = [t \in Threads |-> 0]

LocksNext == \E t \in running : Begin(t) \/ Lock(t) \/ Unlock(t)

LocksSpec == LocksInit /\ [][LocksNext]_lockVars

-----------------------------------------------------------------------------
Waiting(t, ts) == \E m \in Wants(t) : \E u \in ts : m \in Held(u)

\* The Hello handler of a listening peer takes the address book before the
\* connected set, the discovery thread after it: a node without one of the two
\* has one order for all its mutexes.
OneLockOrder ==
    \A ts \in Deployments : \/ \A t \in ts : HandleHello \notin ROLE[t]
                            \/ \A t \in ts : Discover \notin ROLE[t]

\* No group of threads waits for each other in a circle: the lock order the
\* threading model promises.
NoDeadlock == \A ts \in (SUBSET running) \ {{}} : \E t \in ts : ~Waiting(t, ts)
=============================================================================
