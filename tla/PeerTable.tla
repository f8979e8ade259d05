----------------------------- MODULE PeerTable ------------------------------
(***************************************************************************)
(* The connections of one node and the tables of net/src/node.rs `Shared`  *)
(* that track them: peers, book, connected, self_addrs, inbound, banned    *)
(* and best_peer_height.  The accept loop, dial, run_peer, the Hello and   *)
(* Addr handlers and the discovery thread are concurrent; each action is   *)
(* one critical section, or one handler whose sections nobody can observe  *)
(* half-done.  The miner reads the tables through                          *)
(* mainnet_mining_wait_reason (cli/src/main.rs).                           *)
(*                                                                         *)
(* An address is <<ip, port>>.  A connection is a record with its stage    *)
(* (closed, dialing, handshake, live, leaving), direction, transport       *)
(* address, and the advertised address of PeerState (NoAddr for None).     *)
(***************************************************************************)
EXTENDS Integers, Sequences, FiniteSets, Functions

CONSTANTS
    Conns,             \* connections the model considers at a time
    BOOK_ORDER,        \* addresses in the iteration order of the book's HashSet
    Seeds,             \* addresses start_discovery begins with
    SelfIp,            \* our own ip, as we would see it from outside
    DeadIps,           \* hosts that refuse connections
    PEER_HEIGHT,       \* ip -> height the host sends in Hello
    Callers,           \* ips that connect to us
    Gossip,            \* addresses peers tell us of
    LISTENS,           \* ips that advertise a listen port (ListenPort)
    START_HEIGHT,      \* our height
    TARGET_PEERS, MAX_INBOUND, MAX_PER_IP

VARIABLES
    conn,       \* connection -> its record
    peers,      \* connections in the peers map
    book, connected, self_addrs,
    inbound,    \* ip -> live inbound count
    banned,     \* banned ips
    best,       \* best_peer_height
    height,     \* our chain height
    dialer,     \* the discovery thread: [phase, have, queue]
    gate,       \* the miner in mainnet_mining_wait_reason: [reads, local], what
                \* it reads next and its local_height
    mining      \* the miner passed its gate the last time it asked

vars == <<conn, peers, book, connected, self_addrs, inbound, banned, best,
          height, dialer, gate, mining>>
miner  == <<gate, mining>>
tables == <<book, self_addrs, banned, best, height>>

Ips        == DOMAIN PEER_HEIGHT
ListenPort == 1
Ephemeral  == 2
NoAddr     == <<"none", 0>>
Listen(ip) == <<ip, ListenPort>>

ASSUME TableAssumption ==
    /\ PEER_HEIGHT \in [Ips -> Nat] /\ START_HEIGHT \in Nat
    /\ {SelfIp} \cup Callers \subseteq Ips
    /\ IsFiniteSet(Conns) /\ IsFiniteSet(Ips) /\ MAX_INBOUND \in Nat
    /\ \A i \in DOMAIN BOOK_ORDER : BOOK_ORDER[i][1] \in Ips
    /\ \A a \in Seeds \cup Gossip : \E i \in DOMAIN BOOK_ORDER : BOOK_ORDER[i] = a
    /\ \A ip \in LISTENS : \E i \in DOMAIN BOOK_ORDER : BOOK_ORDER[i] = Listen(ip)

Conn(stage, out, addr, advertised, greeted) ==
    [stage |-> stage, out |-> out, addr |-> addr, advertised |-> advertised,
     greeted |-> greeted]

Closed == Conn("closed", FALSE, NoAddr, NoAddr, FALSE)

Ip(c)      == conn[c].addr[1]
Stage(c)   == conn[c].stage
Set(c, s)  == [conn EXCEPT ![c].stage = s]
InConns(ip) == {c \in Conns : Stage(c) # "closed" /\ ~conn[c].out /\ Ip(c) = ip}

-----------------------------------------------------------------------------
(***************************************************************************)
(* Accept loop: the gate, then the handshake in a thread of its own.       *)
(***************************************************************************)
Admits(ip) ==
    /\ ip \notin banned
    /\ SumFunction(inbound) < MAX_INBOUND
    /\ inbound[ip] < MAX_PER_IP

AcceptInbound(c, ip) ==
    /\ Stage(c) = "closed"
    /\ ip = SelfIp => \E d \in Conns : conn[d].out /\ Ip(d) = SelfIp
    /\ Admits(ip)
    /\ inbound' = [inbound EXCEPT ![ip] = @ + 1]
    /\ conn' = [conn EXCEPT ![c] = Conn("handshake", FALSE, <<ip, Ephemeral>>, NoAddr, FALSE)]
    /\ UNCHANGED <<peers, connected, dialer, miner, tables>>

\* dec_inbound, when the connection's thread ends.
DecInbound(c) ==
    inbound' = IF conn[c].out \/ inbound[Ip(c)] = 0 THEN inbound
               ELSE [inbound EXCEPT ![Ip(c)] = @ - 1]

\* A faulty variant: the inbound count is not given back.
HandshakeFailsUncounted(c) ==
    /\ Stage(c) = "handshake"
    /\ conn' = [conn EXCEPT ![c] = Closed]
    /\ UNCHANGED <<inbound, peers, connected, dialer, miner, tables>>

HandshakeFails(c) ==
    /\ Stage(c) = "handshake"
    /\ conn' = [conn EXCEPT ![c] = Closed]
    /\ DecInbound(c)
    /\ UNCHANGED <<peers, connected, dialer, miner, tables>>

-----------------------------------------------------------------------------
(***************************************************************************)
(* dial: refuses banned, own and already connected addresses, then         *)
(* connects in a thread of its own.                                        *)
(***************************************************************************)
Dialable(a) == a[1] \notin banned /\ a \notin self_addrs /\ a \notin connected

StartDial(c, a) ==
    /\ Stage(c) = "closed"
    /\ Dialable(a)
    /\ connected' = connected \cup {a}
    /\ conn' = [conn EXCEPT ![c] = Conn("dialing", TRUE, a, a, FALSE)]

\* A faulty variant: the address stays reserved.
DialFailsKeepsAddress(c) ==
    /\ Stage(c) = "dialing"
    /\ conn' = [conn EXCEPT ![c] = Closed]
    /\ UNCHANGED <<inbound, connected, peers, dialer, miner, tables>>

DialFails(c) ==
    /\ Stage(c) = "dialing"
    /\ connected' = connected \ {conn[c].addr}
    /\ conn' = [conn EXCEPT ![c] = Closed]
    /\ UNCHANGED <<inbound, peers, dialer, miner, tables>>

\* The transport handshake succeeds: run_peer enters the peer in the table
\* and greets it.
Register(c) ==
    /\ Stage(c) \in {"dialing", "handshake"}
    /\ conn[c].out => Ip(c) \notin DeadIps
    /\ conn' = Set(c, "live")
    /\ peers' = peers \cup {c}
    /\ UNCHANGED <<connected, inbound, dialer, miner, tables>>

\* A faulty variant: our own address is not remembered.
HelloFromSelfForgets(c) ==
    /\ Stage(c) = "live" /\ ~conn[c].greeted
    /\ Ip(c) = SelfIp
    /\ conn' = Set(c, "leaving")
    /\ UNCHANGED <<peers, connected, inbound, dialer, miner, tables>>

\* Hello carries our own nonce: remember the addresses, leave without penalty.
HelloFromSelf(c) ==
    /\ Stage(c) = "live" /\ ~conn[c].greeted
    /\ Ip(c) = SelfIp
    /\ self_addrs' = self_addrs \cup ({conn[c].addr, conn[c].advertised} \ {NoAddr})
    /\ conn' = Set(c, "leaving")
    /\ UNCHANGED <<peers, book, connected, inbound, banned, best, height, dialer, miner>>

BestAfter(h) == IF h > best THEN h ELSE best

\* Hello of another node: its height, and its reachable address if it listens.
HelloFromPeer(c) ==
    /\ Stage(c) = "live" /\ ~conn[c].greeted
    /\ Ip(c) # SelfIp
    /\ best' = BestAfter(PEER_HEIGHT[Ip(c)])
    /\ LET reachable  == IF conn[c].out THEN conn[c].addr ELSE Listen(Ip(c))
           learned    == IF Ip(c) \in LISTENS THEN {reachable} ELSE {}
           advertised == IF Ip(c) \in LISTENS THEN reachable ELSE conn[c].advertised
       IN  /\ conn' = [conn EXCEPT ![c] =
                         Conn("live", conn[c].out, conn[c].addr, advertised, TRUE)]
           /\ book' = book \cup learned
           /\ connected' = connected \cup learned
    /\ UNCHANGED <<peers, self_addrs, inbound, banned, height, dialer, miner>>

\* An Addr message: new addresses enter the book.
LearnAddr(c, a) ==
    /\ Stage(c) = "live"
    /\ a \notin book
    /\ book' = book \cup {a}
    /\ UNCHANGED <<conn, peers, connected, self_addrs, inbound, banned, best, height,
                   dialer, miner>>

\* A handler returns an error: misbehave bans the ip, the reader loop ends.
\* What we send ourselves over a self-connection is never an error.
Punish(c) ==
    /\ Stage(c) = "live"
    /\ Ip(c) # SelfIp
    /\ banned' = banned \cup {Ip(c)}
    /\ conn' = Set(c, "leaving")
    /\ UNCHANGED <<peers, book, connected, self_addrs, inbound, best, height, dialer,
                   miner>>

BanExpires(ip) ==
    /\ ip \in banned
    /\ banned' = banned \ {ip}
    /\ UNCHANGED <<conn, peers, book, connected, self_addrs, inbound, best, height,
                   dialer, miner>>

\* The remote side or the network ends the connection.
Disconnected(c) ==
    /\ Stage(c) = "live"
    /\ conn' = Set(c, "leaving")
    /\ UNCHANGED <<peers, connected, inbound, dialer, miner, tables>>

\* The end of run_peer, and dec_inbound behind it.
Leave(c) ==
    /\ Stage(c) = "leaving"
    /\ peers' = peers \ {c}
    /\ connected' = connected \ {conn[c].advertised}
    /\ conn' = [conn EXCEPT ![c] = Closed]
    /\ DecInbound(c)
    /\ UNCHANGED <<dialer, miner, tables>>

-----------------------------------------------------------------------------
(***************************************************************************)
(* The discovery thread: count the peers, pick candidates, dial them, and  *)
(* sleep.  The tables may change between these steps.                      *)
(***************************************************************************)
Count ==
    /\ dialer.phase = "sleep"
    /\ Cardinality(peers) < TARGET_PEERS
    /\ dialer' = [dialer EXCEPT !.phase = "pick", !.have = Cardinality(peers)]
    /\ UNCHANGED <<conn, peers, connected, inbound, miner, tables>>

\* Places in BOOK_ORDER stand for the addresses there.
FirstN(places, n) == {i \in places : Cardinality({j \in places : j < i}) < n}

Candidates ==
    {i \in DOMAIN BOOK_ORDER : BOOK_ORDER[i] \in book \ (connected \cup self_addrs)}

Pick ==
    /\ dialer.phase = "pick"
    /\ dialer' = [dialer EXCEPT !.phase = "dial",
                               !.queue = FirstN(Candidates, TARGET_PEERS - dialer.have)]
    /\ UNCHANGED <<conn, peers, connected, inbound, miner, tables>>

DialNext(c) ==
    /\ dialer.phase = "dial"
    /\ \E i \in dialer.queue :
         /\ \A j \in dialer.queue : i <= j
         /\ LET a == BOOK_ORDER[i]
            IN  IF Dialable(a) THEN StartDial(c, a) ELSE UNCHANGED <<conn, connected>>
         /\ dialer' = [dialer EXCEPT !.queue = @ \ {i}]
    /\ UNCHANGED <<peers, inbound, miner, tables>>

Sleep ==
    /\ dialer.phase = "dial" /\ dialer.queue = {}
    /\ dialer' = [dialer EXCEPT !.phase = "sleep"]
    /\ UNCHANGED <<conn, peers, connected, inbound, miner, tables>>

-----------------------------------------------------------------------------
(***************************************************************************)
(* The miner's gate reads the peers, the height and the best height of a   *)
(* peer one after the other, under a lock each: every other thread may run *)
(* in between.  With no peer it does not read on.                          *)
(***************************************************************************)
AtGate    == [reads |-> "peers", local |-> 0]
allTables == <<conn, peers, connected, inbound, dialer, tables>>

ReadPeers ==
    /\ gate.reads = "peers"
    /\ IF peers = {} THEN mining' = FALSE /\ UNCHANGED gate
       ELSE gate' = [reads |-> "height", local |-> 0] /\ UNCHANGED mining
    /\ UNCHANGED allTables

\* local_height
ReadHeight ==
    /\ gate.reads = "height"
    /\ gate' = [reads |-> "best", local |-> height]
    /\ UNCHANGED <<mining, allTables>>

\* best_peer_height: the gate opens unless local_height is lower.
ReadBest ==
    /\ gate.reads = "best"
    /\ gate' = AtGate
    /\ mining' = (gate.local >= best)
    /\ UNCHANGED allTables

\* A faulty variant: the best height is read before our own.
MinerGateBestFirst ==
    \/ ReadPeers
    \/ /\ gate.reads = "height"
       /\ gate' = [reads |-> "best", local |-> best]
       /\ UNCHANGED <<mining, allTables>>
    \/ /\ gate.reads = "best"
       /\ gate' = AtGate
       /\ mining' = (height >= gate.local)
       /\ UNCHANGED allTables

MinerGate == ReadPeers \/ ReadHeight \/ ReadBest

\* The chain catches up with what peers announced.
CatchUp ==
    /\ height < best
    /\ \E c \in peers : conn[c].greeted
    /\ height' = height + 1
    /\ UNCHANGED <<conn, peers, book, connected, self_addrs, inbound, banned, best,
                   dialer, miner>>

Init ==
    /\ conn = [c \in Conns |-> Closed]
    /\ peers = {} /\ connected = {} /\ self_addrs = {} /\ banned = {}
    /\ book = Seeds
    /\ inbound = [ip \in Ips |-> 0]
    /\ best = START_HEIGHT /\ height = START_HEIGHT
    /\ dialer = [phase |-> "sleep", have |-> 0, queue |-> {}]
    /\ gate = AtGate /\ mining = FALSE

Connection(c) ==
    \/ HandshakeFails(c) \/ DialFails(c) \/ Register(c)
    \/ HelloFromSelf(c) \/ HelloFromPeer(c) \/ Leave(c)

Dialer == Count \/ Pick \/ Sleep \/ \E c \in Conns : DialNext(c)

Next ==
    \/ \E c \in Conns : Connection(c) \/ Disconnected(c) \/ Punish(c)
    \/ \E c \in Conns, ip \in Callers : AcceptInbound(c, ip)
    \/ \E c \in Conns, a \in Gossip : LearnAddr(c, a)
    \/ \E ip \in Ips : BanExpires(ip)
    \/ Dialer \/ MinerGate \/ CatchUp

(***************************************************************************)
(* Fairness: threads run.  A dial ends one way or the other, greetings are *)
(* read, and the discovery loop comes round every few seconds.  A host     *)
(* that is up does not refuse every one of infinitely many dials, nor does *)
(* every connection to it break before the first greeting is read.         *)
(***************************************************************************)
Fairness ==
    /\ WF_vars(Dialer)
    /\ \A c \in Conns : /\ WF_vars(Connection(c))
                       /\ SF_vars(conn[c].out /\ Register(c))
                       /\ SF_vars(conn[c].out /\ HelloFromSelf(c))

Spec == Init /\ [][Next]_vars /\ Fairness

-----------------------------------------------------------------------------
(***************************************************************************)
(* Properties.                                                             *)
(***************************************************************************)
\* The inbound counters are exact, whichever way connections ended, so the
\* caps on inbound connections hold and no slot is lost for good.
InboundExact ==
    /\ \A ip \in Ips : inbound[ip] = Cardinality(InConns(ip))
    /\ SumFunction(inbound) <= MAX_INBOUND

\* Every address in `connected` belongs to a connection or dial that will
\* release it: otherwise the dialer would never use that address again.
ConnectedIsBacked ==
    \A a \in connected : \E c \in Conns : Stage(c) # "closed" /\ conn[c].advertised = a

\* Whenever the miner passes its gate, the chain is as high as every peer that
\* has greeted us by then said it was, also those that greeted us between the
\* reads of the gate.
MinesWhenCaughtUp ==
    [][gate.reads = "best" /\ gate'.reads = "peers" /\ mining' =>
          \A c \in peers : conn[c].greeted => height >= PEER_HEIGHT[Ip(c)]]_vars

\* A reachable seed address is dialed sooner or later, unless enough other
\* nodes are connected without it: the dialer is not held up for ever by dialing
\* itself.  Hosts that are down and earlier in the book's order do hold it up,
\* so this is about books without them.
ReachableIsDialed ==
    \A a \in Seeds : a[1] \notin DeadIps \cup {SelfIp} =>
        <>(\/ \E c \in Conns : conn[c].advertised = a
           \/ Cardinality({c \in peers : Ip(c) # SelfIp}) >= TARGET_PEERS)
=============================================================================
