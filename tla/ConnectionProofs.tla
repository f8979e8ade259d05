-------------------------- MODULE ConnectionProofs --------------------------
(***************************************************************************)
(* Proofs about the connections of a node, for any number of connections,  *)
(* addresses and threads, and any versions, networks and bodies: what the  *)
(* discovery thread and the miner read from the tables is backed by        *)
(* connections, whatever the threads do in between (PeerTable); threads    *)
(* that share one order of the mutexes never wait in a circle (PeerLocks); *)
(* and on each connection no key seals two frames with one nonce, the      *)
(* frames implement the abstract channel, they are read only between sides *)
(* that agree on their keys, and a side refuses only what was damaged on   *)
(* the way (Transport).                                                    *)
(***************************************************************************)
EXTENDS PeerTable, PeerLocks, Transport, SumProofs

-----------------------------------------------------------------------------
(***************************************************************************)
(* The inductive invariant.  An address is released by the end of the      *)
(* connection that advertises it, and a greeting changes what an inbound   *)
(* connection advertises, so an inbound connection backs an address only   *)
(* once it has been greeted.                                               *)
(***************************************************************************)
Shape(r) ==
    r = [stage |-> r.stage, out |-> r.out, addr |-> r.addr,
         advertised |-> r.advertised, greeted |-> r.greeted]

Fields(r) ==
    /\ Shape(r)
    /\ r.addr[1] \in Ips
    /\ r.stage = "dialing" => r.out
    /\ r.stage = "handshake" => ~r.out /\ ~r.greeted

ConnsType ==
    /\ conn = [c \in Conns |-> conn[c]]
    /\ \A c \in Conns : conn[c].stage # "closed" => Fields(conn[c])
    /\ \A c \in Conns : conn[c].stage = "closed" => conn[c] = Closed

TablesType ==
    /\ peers \subseteq {c \in Conns : conn[c].stage \in {"live", "leaving"}}
    /\ best \in Nat /\ height \in Nat
    /\ dialer.queue \subseteq DOMAIN BOOK_ORDER
    /\ DOMAIN dialer = {"phase", "have", "queue"}

DialsAdvertise == \A c \in Conns : conn[c].out => conn[c].advertised = conn[c].addr

Backs(c, a) ==
    conn[c].stage # "closed" /\ conn[c].advertised = a /\ (conn[c].out \/ conn[c].greeted)

AddressesBacked == \A a \in connected : \E c \in Conns : Backs(c, a)

BestCoversGreeted ==
    \A c \in Conns : conn[c].greeted => PEER_HEIGHT[Ip(c)] <= best

TableInv == ConnsType /\ TablesType /\ DialsAdvertise /\ AddressesBacked /\ BestCoversGreeted

-----------------------------------------------------------------------------
\* A record that may replace the one of connection c: what it advertises stays
\* backed, and what it was told is covered.
RBacks(r, a) == r.stage # "closed" /\ r.advertised = a /\ (r.out \/ r.greeted)

Replaces(r, c) ==
    /\ conn' = [conn EXCEPT ![c] = r]
    /\ r.stage # "closed" => Fields(r)
    /\ r.stage = "closed" => r = Closed
    /\ r.out => r.advertised = r.addr
    /\ \A a \in connected' : \/ a \in connected /\ (Backs(c, a) => RBacks(r, a))
                             \/ RBacks(r, a)
    /\ r.greeted => PEER_HEIGHT[r.addr[1]] <= best'
    /\ best <= best'

\* The frame of every action that replaces one record.
LEMMA ReplacedKeeps ==
  ASSUME TableInv, TablesType', NEW c \in Conns, NEW r, Replaces(r, c)
  PROVE  TableInv'
<1>1. conn'[c] = r /\ \A d \in Conns \ {c} : conn'[d] = conn[d]
  BY DEF Replaces, TableInv, ConnsType
<1>2. ConnsType'
  BY DEF Replaces, TableInv, ConnsType, Fields, Shape
<1>3. DialsAdvertise'
  BY <1>1 DEF DialsAdvertise, Replaces, TableInv
<1>4. AddressesBacked'
  <2> SUFFICES ASSUME NEW a \in connected' PROVE \E d \in Conns : Backs(d, a)'
    BY DEF AddressesBacked
  <2>1. CASE RBacks(r, a)
    BY <2>1, <1>1 DEF RBacks, Backs
  <2>2. CASE ~RBacks(r, a)
    <3>1. a \in connected /\ ~Backs(c, a)
      BY <2>2 DEF Replaces
    <3>2. PICK d \in Conns : Backs(d, a)
      BY <3>1 DEF TableInv, AddressesBacked
    <3>3. d # c
      BY <3>1, <3>2
    <3> QED BY <1>1, <3>2, <3>3 DEF Backs
  <2> QED BY <2>1, <2>2
<1>5. BestCoversGreeted'
  <2> SUFFICES ASSUME NEW d \in Conns, conn'[d].greeted
               PROVE  PEER_HEIGHT[conn'[d].addr[1]] <= best'
    BY DEF BestCoversGreeted, Ip
  <2>1. CASE d = c
    BY <2>1, <1>1 DEF Replaces
  <2>2. CASE d # c
    <3>1. conn[d].greeted /\ conn'[d].addr = conn[d].addr
      BY <2>2, <1>1
    <3>2. conn[d].stage # "closed"
      BY <3>1 DEF TableInv, ConnsType, Closed, Conn
    <3>3. conn[d].addr[1] \in Ips
      BY <3>2 DEF TableInv, ConnsType, Fields, Shape
    <3>4. PEER_HEIGHT[conn[d].addr[1]] \in Nat
      BY <3>3, TableAssumption
    <3>5. PEER_HEIGHT[conn[d].addr[1]] <= best /\ best \in Nat /\ best' \in Nat /\ best <= best'
      BY <3>1 DEF TableInv, TablesType, BestCoversGreeted, Ip, Replaces
    <3> QED BY <3>1, <3>4, <3>5
  <2> QED BY <2>1, <2>2
<1> QED BY <1>2, <1>3, <1>4, <1>5 DEF TableInv

\* Every action that leaves the connections and the addresses alone.
LEMMA UnchangedKeeps ==
  ASSUME TableInv, TablesType', UNCHANGED <<conn, connected, best>>
  PROVE  TableInv'
  BY DEF TableInv, ConnsType, DialsAdvertise, AddressesBacked, Backs, BestCoversGreeted, Ip

-----------------------------------------------------------------------------
LEMMA StageSet ==
  ASSUME NEW q, Fields(q), NEW s \in {"live", "leaving"}
  PROVE  LET r == [q EXCEPT !.stage = s]
         IN  /\ r = [stage |-> s, out |-> q.out, addr |-> q.addr,
                     advertised |-> q.advertised, greeted |-> q.greeted]
             /\ Fields(r)
  BY DEF Fields, Shape

\* A connection moves to another open stage; nothing else about it changes.
LEMMA StageMoves ==
  ASSUME TableInv, NEW c \in Conns, Stage(c) # "closed",
         NEW s \in {"live", "leaving"},
         conn' = Set(c, s), UNCHANGED <<connected, best>>
  PROVE  /\ TablesType' => TableInv'
         /\ conn'[c].stage = s
         /\ \A d \in Conns \ {c} : conn'[d] = conn[d]
<1> DEFINE r == [conn[c] EXCEPT !.stage = s]
<1>1. Fields(conn[c])
  BY DEF TableInv, ConnsType, Stage
<1>2. r = [stage |-> s, out |-> conn[c].out, addr |-> conn[c].addr,
           advertised |-> conn[c].advertised, greeted |-> conn[c].greeted]
      /\ Fields(r)
  BY <1>1, StageSet
<1>3. conn' = [conn EXCEPT ![c] = r]
  BY DEF Set
<1>4. /\ r.stage = s /\ r.out = conn[c].out /\ r.addr = conn[c].addr
      /\ r.advertised = conn[c].advertised /\ r.greeted = conn[c].greeted
  BY <1>2
<1>5. conn'[c] = r /\ \A d \in Conns \ {c} : conn'[d] = conn[d]
  BY <1>3 DEF TableInv, ConnsType
<1> HIDE DEF r
<1>6. r.out => r.advertised = r.addr
  BY <1>4 DEF TableInv, DialsAdvertise
<1>7. \A a \in connected' : a \in connected /\ (Backs(c, a) => RBacks(r, a))
  BY <1>4 DEF Backs, RBacks
<1>8. r.greeted => PEER_HEIGHT[r.addr[1]] <= best'
  BY <1>4 DEF TableInv, BestCoversGreeted, Ip
<1>9. Replaces(r, c)
  BY <1>2, <1>3, <1>4, <1>6, <1>7, <1>8 DEF Replaces, TableInv, TablesType
<1> QED BY <1>4, <1>5, <1>9, ReplacedKeeps

\* A connection whose thread has ended: what it advertised is released.
LEMMA ClosedKeeps ==
  ASSUME TableInv, NEW c \in Conns, conn' = [conn EXCEPT ![c] = Closed],
         \A a \in connected' : a \in connected /\ ~Backs(c, a),
         UNCHANGED <<best, height, dialer>>, peers' = peers \ {c}
  PROVE  TableInv'
<1>1. Closed.stage = "closed" /\ Closed.out = FALSE /\ Closed.greeted = FALSE
  BY DEF Closed, Conn
<1>3. Replaces(Closed, c)
  BY <1>1 DEF Replaces, TableInv, TablesType
<1>4. \A d \in Conns \ {c} : conn'[d] = conn[d]
  BY DEF TableInv, ConnsType
<1>5. TablesType'
  BY <1>4 DEF TableInv, TablesType
<1> QED BY <1>3, <1>5, ReplacedKeeps

-----------------------------------------------------------------------------
(***************************************************************************)
(* The actions.                                                            *)
(***************************************************************************)
LEMMA AcceptKeeps ==
  ASSUME TableInv, NEW c \in Conns, NEW ip \in Callers, AcceptInbound(c, ip)
  PROVE  TableInv'
<1> DEFINE r == Conn("handshake", FALSE, <<ip, Ephemeral>>, NoAddr, FALSE)
<1>1. /\ conn' = [conn EXCEPT ![c] = r] /\ conn[c].stage = "closed"
      /\ UNCHANGED <<peers, connected, best, height, dialer>>
  BY DEF AcceptInbound, tables, Stage
<1>2. /\ Shape(r) /\ r.stage = "handshake" /\ ~r.out /\ ~r.greeted
      /\ r.addr = <<ip, Ephemeral>>
  BY DEF Conn, Shape
<1> HIDE DEF r
<1>3. Fields(r)
  BY <1>2, TableAssumption DEF Fields
<1>4. Replaces(r, c)
  BY <1>1, <1>2, <1>3 DEF Replaces, Backs, TableInv, TablesType
<1>5. \A d \in Conns \ {c} : conn'[d] = conn[d]
  BY <1>1 DEF TableInv, ConnsType
<1>6. TablesType'
  BY <1>1, <1>5 DEF TableInv, TablesType
<1> QED BY <1>4, <1>6, ReplacedKeeps

LEMMA HandshakeFailsKeeps ==
  ASSUME TableInv, NEW c \in Conns, HandshakeFails(c)
  PROVE  TableInv'
<1>1. /\ conn' = [conn EXCEPT ![c] = Closed] /\ conn[c].stage = "handshake"
      /\ UNCHANGED <<peers, connected, best, height, dialer>>
  BY DEF HandshakeFails, tables, Stage
<1>2. c \notin peers
  BY <1>1 DEF TableInv, TablesType
<1>3. ~conn[c].out /\ ~conn[c].greeted
  BY <1>1 DEF TableInv, ConnsType, Fields
<1>4. \A a \in connected' : a \in connected /\ ~Backs(c, a)
  BY <1>1, <1>3 DEF Backs
<1>5. peers' = peers \ {c}
  BY <1>1, <1>2
<1> QED BY <1>1, <1>4, <1>5, ClosedKeeps

LEMMA DialFailsKeeps ==
  ASSUME TableInv, NEW c \in Conns, DialFails(c)
  PROVE  TableInv'
<1>1. /\ conn' = [conn EXCEPT ![c] = Closed] /\ conn[c].stage = "dialing"
      /\ connected' = connected \ {conn[c].addr}
      /\ UNCHANGED <<peers, best, height, dialer>>
  BY DEF DialFails, tables, Stage
<1>2. c \notin peers
  BY <1>1 DEF TableInv, TablesType
<1>3. connected' = connected \ {conn[c].advertised}
  BY <1>1 DEF TableInv, ConnsType, Fields, DialsAdvertise
<1>4. peers' = peers \ {c}
  BY <1>1, <1>2
<1>5. \A a \in connected' : a \in connected /\ ~Backs(c, a)
  BY <1>3 DEF Backs
<1> QED BY <1>1, <1>4, <1>5, ClosedKeeps

LEMMA LeaveKeeps ==
  ASSUME TableInv, NEW c \in Conns, Leave(c)
  PROVE  TableInv'
<1>1. /\ conn' = [conn EXCEPT ![c] = Closed]
      /\ connected' = connected \ {conn[c].advertised} /\ peers' = peers \ {c}
      /\ UNCHANGED <<best, height, dialer>>
  BY DEF Leave, tables
<1>2. \A a \in connected' : a \in connected /\ ~Backs(c, a)
  BY <1>1 DEF Backs
<1> QED BY <1>1, <1>2, ClosedKeeps

\* Registration, the two ends of a connection, and a greeting from ourselves.
LEMMA MovesKeep ==
  ASSUME TableInv, NEW c \in Conns,
         Register(c) \/ HelloFromSelf(c) \/ Punish(c) \/ Disconnected(c)
  PROVE  TableInv'
<1>1. PICK s \in {"live", "leaving"} : conn' = Set(c, s)
  BY DEF Register, HelloFromSelf, Punish, Disconnected
<1>2. /\ Stage(c) # "closed" /\ UNCHANGED <<connected, best, height, dialer>>
      /\ peers' \subseteq peers \cup {c}
  BY DEF Register, HelloFromSelf, Punish, Disconnected, tables
<1>3. TablesType'
  BY <1>1, <1>2, StageMoves DEF TableInv, TablesType
<1> QED BY <1>1, <1>2, <1>3, StageMoves

LEMMA DialNextKeeps ==
  ASSUME TableInv, NEW c \in Conns, DialNext(c)
  PROVE  TableInv'
<1>1. PICK i \in dialer.queue :
         /\ LET a == BOOK_ORDER[i]
            IN  IF Dialable(a) THEN StartDial(c, a) ELSE UNCHANGED <<conn, connected>>
         /\ dialer' = [dialer EXCEPT !.queue = @ \ {i}]
  BY DEF DialNext
<1>2. UNCHANGED <<peers, best, height>>
  BY DEF DialNext, tables
<1>3. dialer'.queue \subseteq DOMAIN BOOK_ORDER /\ DOMAIN dialer' = {"phase", "have", "queue"}
  BY <1>1 DEF TableInv, TablesType
<1> DEFINE a == BOOK_ORDER[i]
<1>4. a[1] \in Ips
  BY TableAssumption DEF TableInv, TablesType
<1>5. CASE ~Dialable(a)
  <2>1. UNCHANGED <<conn, connected>>
    BY <1>1, <1>5
  <2>2. TablesType'
    BY <1>2, <1>3, <2>1 DEF TableInv, TablesType
  <2> QED BY <2>1, <2>2, <1>2, UnchangedKeeps
<1>6. CASE Dialable(a)
  <2> DEFINE r == Conn("dialing", TRUE, a, a, FALSE)
  <2>1. /\ conn' = [conn EXCEPT ![c] = r] /\ conn[c].stage = "closed"
        /\ connected' = connected \cup {a}
    BY <1>1, <1>6 DEF StartDial, Stage
  <2>2. /\ Shape(r) /\ r.stage = "dialing" /\ r.out /\ ~r.greeted
        /\ r.addr = a /\ r.advertised = a
    BY DEF Conn, Shape
  <2> HIDE DEF r, a
  <2>3. Fields(r)
    BY <2>2, <1>4 DEF Fields
  <2>4. \A b \in connected' : (b \in connected /\ ~Backs(c, b)) \/ RBacks(r, b)
    BY <2>1, <2>2 DEF Backs, RBacks
  <2>5. Replaces(r, c)
    BY <1>2, <2>1, <2>2, <2>3, <2>4 DEF Replaces, TableInv, TablesType
  <2>6. \A d \in Conns \ {c} : conn'[d] = conn[d]
    BY <2>1 DEF TableInv, ConnsType
  <2>7. TablesType'
    BY <1>2, <1>3, <2>1, <2>6 DEF TableInv, TablesType
  <2> QED BY <2>5, <2>7, ReplacedKeeps
<1> QED BY <1>5, <1>6

LEMMA HelloKeeps ==
  ASSUME TableInv, NEW c \in Conns, HelloFromPeer(c)
  PROVE  TableInv'
<1>1. conn[c].stage = "live" /\ ~conn[c].greeted /\ UNCHANGED <<peers, height, dialer>>
  BY DEF HelloFromPeer, Stage
<1>2. Fields(conn[c]) /\ Ip(c) \in Ips
  BY <1>1 DEF TableInv, ConnsType, Fields, Ip
<1>3. PEER_HEIGHT[Ip(c)] \in Nat /\ best \in Nat
  BY <1>2, TableAssumption DEF TableInv, TablesType
<1>4. best' \in Nat /\ best <= best' /\ PEER_HEIGHT[Ip(c)] <= best'
  BY <1>3 DEF HelloFromPeer, BestAfter
<1> DEFINE reach == IF conn[c].out THEN conn[c].addr ELSE Listen(Ip(c))
           adv == IF Ip(c) \in LISTENS THEN reach ELSE conn[c].advertised
           r == Conn("live", conn[c].out, conn[c].addr, adv, TRUE)
<1>5. /\ Shape(r) /\ r.stage = "live" /\ r.greeted /\ r.out = conn[c].out
      /\ r.addr = conn[c].addr /\ r.advertised = adv
  BY DEF Conn, Shape
<1>6. conn' = [conn EXCEPT ![c] = r]
  BY DEF HelloFromPeer
<1>7. /\ connected' = IF Ip(c) \in LISTENS THEN connected \cup {adv} ELSE connected
      /\ conn[c].out => adv = conn[c].advertised /\ adv = conn[c].addr
  BY DEF HelloFromPeer, TableInv, DialsAdvertise
<1> HIDE DEF r, adv
<1>8. Fields(r)
  BY <1>2, <1>5 DEF Fields, Ip
<1>9. \A a \in connected' : \/ a \in connected /\ (Backs(c, a) => RBacks(r, a))
                            \/ RBacks(r, a)
  BY <1>1, <1>5, <1>7 DEF Backs, RBacks
<1>10. Replaces(r, c)
  BY <1>4, <1>5, <1>6, <1>7, <1>8, <1>9 DEF Replaces, Ip
<1>11. conn'[c].stage = "live" /\ \A d \in Conns \ {c} : conn'[d] = conn[d]
  BY <1>5, <1>6 DEF TableInv, ConnsType
<1>12. TablesType'
  BY <1>1, <1>4, <1>11 DEF TableInv, TablesType
<1> QED BY <1>10, <1>12, ReplacedKeeps

\* What the discovery thread reads, the miner, gossip and the end of a ban.
LEMMA OthersKeep ==
  ASSUME TableInv,
         \/ Count \/ Pick \/ Sleep \/ MinerGate \/ CatchUp
         \/ \E c \in Conns, a \in Gossip : LearnAddr(c, a)
         \/ \E ip \in Ips : BanExpires(ip)
  PROVE  TableInv'
<1>1. UNCHANGED <<conn, connected, best, peers>>
  BY DEF Count, Pick, Sleep, MinerGate, ReadPeers, ReadHeight, ReadBest, CatchUp, LearnAddr,
         BanExpires, allTables, tables
<1>2. height' \in Nat
  BY DEF Count, Pick, Sleep, MinerGate, ReadPeers, ReadHeight, ReadBest, CatchUp, LearnAddr,
         BanExpires, allTables, tables, TableInv, TablesType
<1>3. dialer'.queue \subseteq DOMAIN BOOK_ORDER /\ DOMAIN dialer' = {"phase", "have", "queue"}
  BY DEF Count, Pick, Sleep, MinerGate, ReadPeers, ReadHeight, ReadBest, CatchUp, LearnAddr,
         BanExpires, allTables, tables, TableInv, TablesType, FirstN, Candidates
<1>4. TablesType'
  BY <1>1, <1>2, <1>3 DEF TableInv, TablesType
<1> QED BY <1>1, <1>4, UnchangedKeeps

-----------------------------------------------------------------------------
LEMMA InitTables == Init => TableInv
<1> SUFFICES ASSUME Init PROVE TableInv
  OBVIOUS
<1>1. ConnsType
  BY DEF Init, ConnsType, Closed, Conn
<1>2. TablesType
  BY TableAssumption DEF Init, TablesType
<1>3. \A c \in Conns : ~conn[c].out /\ ~conn[c].greeted
  BY DEF Init, Closed, Conn
<1> QED BY <1>1, <1>2, <1>3
        DEF Init, TableInv, DialsAdvertise, AddressesBacked, BestCoversGreeted

LEMMA NextTables == TableInv /\ [Next]_vars => TableInv'
<1> SUFFICES ASSUME TableInv, [Next]_vars PROVE TableInv'
  OBVIOUS
<1>1. CASE UNCHANGED vars
  <2>1. TablesType'
    BY <1>1 DEF vars, TableInv, TablesType
  <2> QED BY <1>1, <2>1, UnchangedKeeps DEF vars
<1>2. ASSUME NEW c \in Conns, Connection(c) \/ Disconnected(c) \/ Punish(c) PROVE TableInv'
  BY <1>2, HandshakeFailsKeeps, DialFailsKeeps, MovesKeep, HelloKeeps, LeaveKeeps
     DEF Connection
<1>3. ASSUME NEW c \in Conns, NEW ip \in Callers, AcceptInbound(c, ip) PROVE TableInv'
  BY <1>3, AcceptKeeps
<1>4. ASSUME NEW c \in Conns, DialNext(c) PROVE TableInv'
  BY <1>4, DialNextKeeps
<1> QED BY <1>1, <1>2, <1>3, <1>4, OthersKeep DEF Next, Dialer

\* What the tables say of connections is so in every reachable state.
THEOREM TableInvariant == Spec => []TableInv
  BY InitTables, NextTables, PTL DEF Spec

\* No address stays in `connected` without a connection or dial that will
\* release it, so the discovery thread never loses the use of an address.
THEOREM AddressesReleased == Spec => []ConnectedIsBacked
<1>1. TableInv => ConnectedIsBacked
  BY DEF TableInv, AddressesBacked, Backs, ConnectedIsBacked, Stage
<1> QED BY <1>1, TableInvariant, PTL

\* What the miner has read of the height is not above the height: the chain may
\* have grown since.
GateInv == gate.reads = "best" => gate.local \in Nat /\ gate.local <= height

LEMMA GateNext == TableInv /\ GateInv /\ [Next]_vars => GateInv'
<1> SUFFICES ASSUME TableInv, GateInv, [Next]_vars PROVE GateInv'
  OBVIOUS
<1>1. height \in Nat /\ best \in Nat
  BY DEF TableInv, TablesType
<1>2. ASSUME UNCHANGED gate, height' \in Nat, height <= height' PROVE GateInv'
  BY <1>1, <1>2 DEF GateInv
<1>3. CASE MinerGate
  BY <1>1, <1>3 DEF GateInv, MinerGate, ReadPeers, ReadHeight, ReadBest, AtGate, allTables, tables
<1>4. CASE CatchUp
  BY <1>1, <1>2, <1>4 DEF CatchUp, miner
<1>5. CASE UNCHANGED vars
  BY <1>1, <1>2, <1>5 DEF vars
<1>6. CASE UNCHANGED <<gate, height>>
  BY <1>1, <1>2, <1>6
<1>7. \/ MinerGate \/ CatchUp \/ UNCHANGED vars \/ UNCHANGED <<gate, height>>
  BY DEF Next, Connection, Dialer, HandshakeFails, DialFails, Register, HelloFromSelf,
         HelloFromPeer, Leave, Disconnected, Punish, AcceptInbound, LearnAddr, BanExpires,
         Count, Pick, Sleep, DialNext, miner, tables
<1> QED BY <1>3, <1>4, <1>5, <1>6, <1>7

\* However many peers register, greet or leave between the reads of the gate, the
\* miner passes it only at a height that no greeted peer exceeds: `best` is read
\* last and covers every greeting up to then, and the height read before it is
\* not above the height of the chain.
THEOREM MinerWaits == Spec => MinesWhenCaughtUp
<1>1. Init => GateInv
  BY DEF Init, GateInv, AtGate
<1>2. ASSUME TableInv, GateInv, [Next]_vars
      PROVE  [gate.reads = "best" /\ gate'.reads = "peers" /\ mining' =>
                 \A c \in peers : conn[c].greeted => height >= PEER_HEIGHT[Ip(c)]]_vars
  <2> SUFFICES ASSUME Next, gate.reads = "best", gate'.reads = "peers", mining',
                      NEW c \in peers, conn[c].greeted
               PROVE  height >= PEER_HEIGHT[Ip(c)]
    BY <1>2 DEF vars
  <2>1. gate' # gate
    OBVIOUS
  <2>2. MinerGate
    BY <2>1 DEF Next, Connection, Dialer, HandshakeFails, DialFails, Register, HelloFromSelf,
           HelloFromPeer, Leave, Disconnected, Punish, AcceptInbound, LearnAddr, BanExpires,
           Count, Pick, Sleep, DialNext, CatchUp, miner
  <2>3. gate.local >= best
    BY <2>2 DEF MinerGate, ReadPeers, ReadHeight, ReadBest
  <2>4. gate.local \in Nat /\ gate.local <= height
    BY <1>2 DEF GateInv
  <2>5. c \in Conns /\ conn[c].stage # "closed" /\ height \in Nat /\ best \in Nat
    BY <1>2 DEF TableInv, TablesType
  <2>6. PEER_HEIGHT[Ip(c)] \in Nat
    BY <1>2, <2>5, TableAssumption DEF TableInv, ConnsType, Fields, Ip
  <2>7. PEER_HEIGHT[Ip(c)] <= best
    BY <1>2, <2>5 DEF TableInv, BestCoversGreeted
  <2> QED BY <2>3, <2>4, <2>5, <2>6, <2>7
<1> QED BY <1>1, <1>2, GateNext, InitTables, NextTables, PTL DEF Spec, MinesWhenCaughtUp

-----------------------------------------------------------------------------
(***************************************************************************)
(* The inbound counters.                                                   *)
(***************************************************************************)
CountInv == inbound \in [Ips -> Nat] /\ InboundExact

LEMMA InConnsFinite ==
  ASSUME NEW ip
  PROVE  IsFiniteSet(InConns(ip)) /\ InConns(ip) \subseteq Conns
<1>1. InConns(ip) \subseteq Conns
  BY DEF InConns
<1> QED BY <1>1, TableAssumption, FS_Subset

\* The same connections from outside are open.
LEMMA CountsStay ==
  ASSUME CountInv, UNCHANGED inbound, \A ip \in Ips : InConns(ip)' = InConns(ip)
  PROVE  CountInv'
  BY DEF CountInv, InboundExact

\* Nothing changes for the counters but perhaps the stage of one connection.
LEMMA CountsIgnore ==
  ASSUME TableInv, CountInv, UNCHANGED inbound, NEW c \in Conns, NEW r,
         conn' = [conn EXCEPT ![c] = r],
         (conn[c].stage # "closed" /\ ~conn[c].out) <=> (r.stage # "closed" /\ ~r.out),
         (conn[c].stage # "closed" /\ ~conn[c].out) => r.addr = conn[c].addr
  PROVE  CountInv'
<1>1. conn'[c] = r /\ \A d \in Conns \ {c} : conn'[d] = conn[d]
  BY DEF TableInv, ConnsType
<1>2. \A ip \in Ips : InConns(ip)' = InConns(ip)
  BY <1>1 DEF InConns, Stage, Ip
<1> QED BY <1>2, CountsStay

\* dec_inbound gives back what the accept loop took.
LEMMA CountsRelease ==
  ASSUME TableInv, CountInv, NEW c \in Conns, Stage(c) # "closed",
         conn' = [conn EXCEPT ![c] = Closed], DecInbound(c)
  PROVE  CountInv'
<1>1. Closed.stage = "closed" /\ Closed.out = FALSE
  BY DEF Closed, Conn
<1>2. conn'[c] = Closed /\ \A d \in Conns \ {c} : conn'[d] = conn[d]
  BY DEF TableInv, ConnsType
<1>3. CASE conn[c].out
  <2>1. UNCHANGED inbound
    BY <1>3 DEF DecInbound
  <2> QED BY <1>1, <1>3, <2>1, CountsIgnore
<1>4. CASE ~conn[c].out
  <2>0. PICK i \in Ips : i = Ip(c)
    BY <1>4 DEF TableInv, ConnsType, Fields, Ip, Stage
  <2>1. c \in InConns(i)
    BY <1>4, <2>0 DEF InConns
  <2> DEFINE n == Cardinality(InConns(i) \ {c})
  <2>2. n \in Nat /\ Cardinality(InConns(i)) = n + 1
    BY <2>1, InConnsFinite, Smaller
  <2>3. inbound[i] = n + 1
    BY <2>1, <2>2 DEF CountInv, InboundExact
  <2>4. inbound' = [inbound EXCEPT ![i] = n]
    <3>1. inbound[i] # 0 /\ inbound[i] - 1 = n
      BY <2>2, <2>3
    <3> QED BY <1>4, <2>0, <3>1 DEF DecInbound
  <2>5. InConns(i)' = InConns(i) \ {c}
    BY <1>1, <1>2 DEF InConns, Stage, Ip
  <2>6. \A ip \in Ips \ {i} : InConns(ip)' = InConns(ip)
    BY <1>1, <1>2, <2>0 DEF InConns, Stage, Ip
  <2> HIDE DEF n
  <2>7. \A ip \in Ips : inbound'[ip] = Cardinality(InConns(ip)')
    <3>1. inbound'[i] = Cardinality(InConns(i)')
      BY <2>4, <2>5 DEF CountInv, n
    <3>2. \A ip \in Ips \ {i} : inbound'[ip] = inbound[ip]
      BY <2>4 DEF CountInv
    <3>3. \A ip \in Ips \ {i} : inbound'[ip] = Cardinality(InConns(ip)')
      BY <2>6, <3>2 DEF CountInv, InboundExact
    <3> QED BY <3>1, <3>3
  <2>8. SumFunction(inbound') + inbound[i] = SumFunction(inbound) + n
    <3>1. inbound' \in [Ips -> Nat] /\ inbound'[i] = n
          /\ \A ip \in Ips \ {i} : inbound'[ip] = inbound[ip]
      BY <2>2, <2>4 DEF CountInv
    <3> QED BY <3>1, SumExcept, TableAssumption DEF CountInv
  <2>9. inbound' \in [Ips -> Nat]
    BY <2>2, <2>4 DEF CountInv
  <2>10. SumFunction(inbound) \in Nat /\ SumFunction(inbound') \in Nat
    BY <2>9, SumType, TableAssumption DEF CountInv
  <2>11. SumFunction(inbound') <= MAX_INBOUND
    BY <2>2, <2>3, <2>8, <2>10, TableAssumption DEF CountInv, InboundExact
  <2> QED BY <2>7, <2>9, <2>11 DEF CountInv, InboundExact
<1> QED BY <1>3, <1>4

LEMMA CountsAdmit ==
  ASSUME TableInv, CountInv, NEW c \in Conns, NEW ip \in Callers, AcceptInbound(c, ip)
  PROVE  CountInv'
<1> DEFINE r == Conn("handshake", FALSE, <<ip, Ephemeral>>, NoAddr, FALSE)
<1>1. /\ conn' = [conn EXCEPT ![c] = r] /\ conn[c].stage = "closed"
      /\ inbound' = [inbound EXCEPT ![ip] = inbound[ip] + 1]
      /\ SumFunction(inbound) < MAX_INBOUND
  BY DEF AcceptInbound, Admits, Stage
<1>2. r.stage = "handshake" /\ ~r.out /\ r.addr[1] = ip
  BY DEF Conn
<1> HIDE DEF r
<1>3. conn'[c] = r /\ \A d \in Conns \ {c} : conn'[d] = conn[d]
  BY <1>1 DEF TableInv, ConnsType
<1>4. ip \in Ips
  BY TableAssumption
<1>5. c \notin InConns(ip) /\ InConns(ip)' = InConns(ip) \cup {c}
  BY <1>1, <1>2, <1>3 DEF InConns, Stage, Ip
<1>6. \A i \in Ips \ {ip} : InConns(i)' = InConns(i)
  BY <1>1, <1>2, <1>3 DEF InConns, Stage, Ip
<1>7. Cardinality(InConns(ip)') = Cardinality(InConns(ip)) + 1
  BY <1>5, InConnsFinite, FS_AddElement
<1>8. inbound' \in [Ips -> Nat] /\ inbound[ip] \in Nat
  BY <1>1, <1>4 DEF CountInv
<1>9. \A i \in Ips : inbound'[i] = Cardinality(InConns(i)')
  <2>1. inbound'[ip] = inbound[ip] + 1 /\ \A i \in Ips \ {ip} : inbound'[i] = inbound[i]
    BY <1>1, <1>4 DEF CountInv
  <2> QED BY <1>4, <1>6, <1>7, <2>1 DEF CountInv, InboundExact
<1>10. SumFunction(inbound') + inbound[ip] = SumFunction(inbound) + (inbound[ip] + 1)
  <2>1. inbound'[ip] = inbound[ip] + 1 /\ \A i \in Ips \ {ip} : inbound'[i] = inbound[i]
    BY <1>1, <1>4 DEF CountInv
  <2> QED BY <1>4, <1>8, <2>1, SumExcept, TableAssumption DEF CountInv
<1>11. SumFunction(inbound) \in Nat /\ SumFunction(inbound') \in Nat
  BY <1>8, SumType, TableAssumption DEF CountInv
<1>12. SumFunction(inbound') <= MAX_INBOUND
  BY <1>1, <1>8, <1>10, <1>11, TableAssumption
<1> QED BY <1>8, <1>9, <1>12 DEF CountInv, InboundExact

LEMMA CountsInit == Init => CountInv
<1> SUFFICES ASSUME Init PROVE CountInv
  OBVIOUS
<1>1. inbound = [ip \in Ips |-> 0]
  BY DEF Init
<1>2. \A ip \in Ips : InConns(ip) = {}
  BY DEF Init, InConns, Stage, Closed, Conn
<1>3. \A ip \in Ips : inbound[ip] = Cardinality(InConns(ip))
  BY <1>1, <1>2, FS_EmptySet
<1>4. SumFunction(inbound) = 0
  BY <1>1, SumZero, TableAssumption
<1> QED BY <1>1, <1>3, <1>4, TableAssumption DEF CountInv, InboundExact

LEMMA CountsNext == TableInv /\ CountInv /\ [Next]_vars => CountInv'
<1> SUFFICES ASSUME TableInv, CountInv, [Next]_vars PROVE CountInv'
  OBVIOUS
<1>1. ASSUME UNCHANGED <<conn, inbound>> PROVE CountInv'
  BY <1>1, CountsStay DEF InConns, Stage, Ip
<1>2. ASSUME NEW c \in Conns, HandshakeFails(c) \/ Leave(c) PROVE CountInv'
  <2>1. Stage(c) # "closed" /\ conn' = [conn EXCEPT ![c] = Closed] /\ DecInbound(c)
    BY <1>2 DEF HandshakeFails, Leave
  <2> QED BY <2>1, CountsRelease
<1>3. ASSUME NEW c \in Conns, DialFails(c) PROVE CountInv'
  <2>1. conn' = [conn EXCEPT ![c] = Closed] /\ UNCHANGED inbound /\ conn[c].stage = "dialing"
    BY <1>3 DEF DialFails, Stage
  <2>2. conn[c].out /\ Closed.stage = "closed"
    BY <2>1 DEF TableInv, ConnsType, Fields, Closed, Conn
  <2> QED BY <2>1, <2>2, CountsIgnore
<1>4. ASSUME NEW c \in Conns,
             Register(c) \/ HelloFromSelf(c) \/ Punish(c) \/ Disconnected(c)
      PROVE  CountInv'
  <2>1. PICK s \in {"live", "leaving"} : conn' = Set(c, s)
    BY <1>4 DEF Register, HelloFromSelf, Punish, Disconnected
  <2>2. conn[c].stage # "closed" /\ UNCHANGED inbound
    BY <1>4 DEF Register, HelloFromSelf, Punish, Disconnected, Stage
  <2> DEFINE r == [conn[c] EXCEPT !.stage = s]
  <2>3. Fields(conn[c])
    BY <2>2 DEF TableInv, ConnsType
  <2>4. r.stage = s /\ r.out = conn[c].out /\ r.addr = conn[c].addr
    BY <2>3, StageSet
  <2>5. conn' = [conn EXCEPT ![c] = r]
    BY <2>1 DEF Set
  <2> HIDE DEF r
  <2> QED BY <2>2, <2>4, <2>5, CountsIgnore
<1>5. ASSUME NEW c \in Conns, HelloFromPeer(c) PROVE CountInv'
  <2>1. PICK adv : conn' = [conn EXCEPT ![c] =
                              Conn("live", conn[c].out, conn[c].addr, adv, TRUE)]
    BY <1>5 DEF HelloFromPeer
  <2> DEFINE r == Conn("live", conn[c].out, conn[c].addr, adv, TRUE)
  <2>2. r.stage = "live" /\ r.out = conn[c].out /\ r.addr = conn[c].addr
    BY DEF Conn
  <2>3. conn[c].stage = "live" /\ UNCHANGED inbound
    BY <1>5 DEF HelloFromPeer, Stage
  <2> HIDE DEF r
  <2> QED BY <2>1, <2>2, <2>3, CountsIgnore DEF r
<1>6. ASSUME NEW c \in Conns, DialNext(c) PROVE CountInv'
  <2>1. UNCHANGED conn \/ \E a : StartDial(c, a)
    BY <1>6 DEF DialNext
  <2>2. UNCHANGED inbound
    BY <1>6 DEF DialNext
  <2>3. ASSUME NEW a, StartDial(c, a) PROVE CountInv'
    <3> DEFINE r == Conn("dialing", TRUE, a, a, FALSE)
    <3>1. conn' = [conn EXCEPT ![c] = r] /\ conn[c].stage = "closed"
      BY <2>3 DEF StartDial, Stage
    <3>2. r.out
      BY DEF Conn
    <3> HIDE DEF r
    <3> QED BY <2>2, <3>1, <3>2, CountsIgnore
  <2> QED BY <1>1, <2>1, <2>2, <2>3
<1>7. ASSUME \/ Count \/ Pick \/ Sleep \/ MinerGate \/ CatchUp
             \/ \E c \in Conns, a \in Gossip : LearnAddr(c, a)
             \/ \E ip \in Ips : BanExpires(ip)
      PROVE  CountInv'
  BY <1>1, <1>7 DEF Count, Pick, Sleep, MinerGate, ReadPeers, ReadHeight, ReadBest, CatchUp,
                    LearnAddr, BanExpires, allTables
<1>8. ASSUME UNCHANGED vars PROVE CountInv'
  BY <1>1, <1>8 DEF vars
<1> QED BY <1>2, <1>3, <1>4, <1>5, <1>6, <1>7, <1>8, CountsAdmit DEF Next, Connection, Dialer

\* Whichever way connections end, the counters are the number of open inbound
\* connections of every ip, and all together never exceed the cap.
THEOREM InboundCounted == Spec => []InboundExact
<1>1. CountInv => InboundExact
  BY DEF CountInv
<1> QED BY <1>1, CountsInit, CountsNext, InitTables, NextTables, PTL DEF Spec

-----------------------------------------------------------------------------
(***************************************************************************)
(* PeerLocks.                                                              *)
(***************************************************************************)
\* Sections that take one mutex, and those that nest.
Singles == {<<m>> : m \in Mutexes}
Nested  == <<"chain", "mempool">>
OfHello == <<"book", "connected">>
OfDiscovery == <<"connected", "self_addrs", "book">>

SectionsOf(op) ==
    Singles \cup {Nested} \cup (IF op = HandleHello THEN {OfHello} ELSE {})
                          \cup (IF op = Discover THEN {OfDiscovery} ELSE {})

LEMMA Concatenated ==
  ASSUME NEW S, NEW a \in Seq(S), NEW b \in Seq(S), NEW k \in DOMAIN (a \o b)
  PROVE  (\E i \in DOMAIN a : (a \o b)[k] = a[i]) \/ (\E i \in DOMAIN b : (a \o b)[k] = b[i])
<1>1. k \in 1..(Len(a) + Len(b)) /\ Len(a) \in Nat /\ Len(b) \in Nat
  OBVIOUS
<1>2. CASE k <= Len(a)
  <2>1. k \in DOMAIN a /\ (a \o b)[k] = a[k]
    BY <1>1, <1>2
  <2> QED BY <2>1
<1>3. CASE k > Len(a)
  <2>1. k - Len(a) \in DOMAIN b /\ (a \o b)[k] = b[k - Len(a)]
    BY <1>1, <1>3
  <2> QED BY <2>1
<1> QED BY <1>1, <1>2, <1>3

LEMMA SectionsKnown ==
  ASSUME NEW op \in Operations, NEW k \in DOMAIN op
  PROVE  op[k] \in SectionsOf(op)
<1> USE DEF SectionsOf, Singles, Mutexes, Nested
<1>1. CASE op \in {StartPeer, EndPeer, HandleSelf, HandleHelloNoPort, HandleGetAddr}
  BY <1>1 DEF StartPeer, EndPeer, HandleSelf, HandleHelloNoPort, HandleGetAddr
<1>2. CASE op \in {HandleAddr, ReadBoth, HandleGetData, HandleGetBlocks, SubmitTx}
  BY <1>2 DEF HandleAddr, ReadBoth, HandleGetData, HandleGetBlocks, SubmitTx
<1>3. CASE op \in {LeaveInbound, AcceptPeer, DialFailed, AcceptBlock}
  BY <1>3 DEF LeaveInbound, AcceptPeer, DialFailed, AcceptBlock
<1>4. CASE op = HandleHello
  <2>1. k \in 1..2 /\ op[1] = OfHello /\ op[2] = <<"chain">>
    BY <1>4 DEF HandleHello, OfHello
  <2> QED BY <1>4, <2>1
<1>5. CASE op = HandleBlock
  <2>1. AcceptBlock \in Seq(Seq(Mutexes)) /\ <<<<"chain">>>> \in Seq(Seq(Mutexes))
    BY DEF AcceptBlock
  <2>2. \/ \E i \in DOMAIN AcceptBlock : op[k] = AcceptBlock[i]
        \/ \E i \in DOMAIN <<<<"chain">>>> : op[k] = <<<<"chain">>>>[i]
    BY <1>5, <2>1, Concatenated DEF HandleBlock
  <2> QED BY <2>2 DEF AcceptBlock
<1>6. CASE op = MineRound
  <2>1. PICK S, u, v : /\ S = Seq(Mutexes)
                       /\ u = <<<<"peers">>, <<"chain">>>> /\ v = ReadBoth
                       /\ op = u \o v
    BY <1>6 DEF MineRound
  <2>2. u \in Seq(S) /\ v \in Seq(S) /\ k \in DOMAIN (u \o v)
    BY <2>1 DEF ReadBoth
  <2>3. \/ \E i \in DOMAIN u : (u \o v)[k] = u[i]
        \/ \E i \in DOMAIN v : (u \o v)[k] = v[i]
    BY ONLY <2>2, Concatenated
  <2>4. ASSUME NEW i \in DOMAIN u PROVE u[i] \in Singles
    BY <2>1, <2>4
  <2>5. ASSUME NEW i \in DOMAIN v PROVE v[i] = Nested
    BY <2>1, <2>5 DEF ReadBoth
  <2> QED BY <2>1, <2>3, <2>4, <2>5
<1>7. CASE op = Discover
  <2>1. PICK S, u, v : /\ S = Seq(Mutexes)
                       /\ u = <<<<"peers">>, OfDiscovery>> /\ v = Dial
                       /\ op = u \o v
    BY <1>7 DEF Discover, OfDiscovery
  <2>2. u \in Seq(S) /\ v \in Seq(S) /\ k \in DOMAIN (u \o v)
    BY <2>1 DEF Dial, OfDiscovery
  <2>3. \/ \E i \in DOMAIN u : (u \o v)[k] = u[i]
        \/ \E i \in DOMAIN v : (u \o v)[k] = v[i]
    BY ONLY <2>2, Concatenated
  <2>4. ASSUME NEW i \in DOMAIN u PROVE u[i] \in Singles \cup {OfDiscovery}
    BY <2>1, <2>4
  <2>5. ASSUME NEW i \in DOMAIN v PROVE v[i] \in Singles
    BY <2>1, <2>5 DEF Dial
  <2> QED BY <1>7, <2>1, <2>3, <2>4, <2>5
<1> QED BY <1>1, <1>2, <1>3, <1>4, <1>5, <1>6, <1>7
        DEF Operations, Reader, Inbound, Accept, Discoverer, Miner, Bridge

\* The two orders of the mutexes: the Hello handler takes the address book
\* before the connected set, the discovery thread after it.
HelloRank == [m \in Mutexes |-> IF m \in {"mempool", "connected"} THEN 2 ELSE 1]
DiscoveryRank == [m \in Mutexes |-> IF m = "book" THEN 3
                                    ELSE IF m \in {"mempool", "self_addrs"} THEN 2 ELSE 1]

Ascends(rank, section) ==
    \A i, j \in DOMAIN section : i < j => rank[section[i]] < rank[section[j]]

LEMMA OrderExists ==
  ASSUME NEW ts \in Deployments, OneLockOrder
  PROVE  \E rank \in [Mutexes -> 1..3] :
            \A t \in ts : \A op \in ROLE[t] : \A k \in DOMAIN op : Ascends(rank, op[k])
<1>1. ts \subseteq Threads /\ \A t \in ts : ROLE[t] \subseteq Operations
  BY RoleAssumption
<1>2. HelloRank \in [Mutexes -> 1..3] /\ DiscoveryRank \in [Mutexes -> 1..3]
  BY DEF HelloRank, DiscoveryRank
<1>3. ASSUME NEW section \in Singles \cup {Nested}
      PROVE  Ascends(HelloRank, section) /\ Ascends(DiscoveryRank, section)
  <2>1. CASE section \in Singles
    BY <2>1 DEF Singles, Ascends
  <2>2. CASE section = Nested
    <3>1. DOMAIN section = 1..2 /\ section[1] = "chain" /\ section[2] = "mempool"
      BY <2>2 DEF Nested
    <3>2. /\ HelloRank["chain"] = 1 /\ HelloRank["mempool"] = 2
          /\ DiscoveryRank["chain"] = 1 /\ DiscoveryRank["mempool"] = 2
      BY DEF HelloRank, DiscoveryRank, Mutexes
    <3>3. \A i, j \in 1..2 : i < j => i = 1 /\ j = 2
      OBVIOUS
    <3> QED BY <3>1, <3>2, <3>3 DEF Ascends
  <2> QED BY <2>1, <2>2
<1>4. Ascends(HelloRank, OfHello)
  <2>1. DOMAIN OfHello = 1..2 /\ OfHello[1] = "book" /\ OfHello[2] = "connected"
    BY DEF OfHello
  <2>2. HelloRank["book"] = 1 /\ HelloRank["connected"] = 2
    BY DEF HelloRank, Mutexes
  <2>3. \A i, j \in 1..2 : i < j => i = 1 /\ j = 2
    OBVIOUS
  <2> QED BY <2>1, <2>2, <2>3 DEF Ascends
<1>5. Ascends(DiscoveryRank, OfDiscovery)
  <2>1. /\ DOMAIN OfDiscovery = 1..3 /\ OfDiscovery[1] = "connected"
        /\ OfDiscovery[2] = "self_addrs" /\ OfDiscovery[3] = "book"
    BY DEF OfDiscovery
  <2>2. /\ DiscoveryRank["connected"] = 1 /\ DiscoveryRank["self_addrs"] = 2
        /\ DiscoveryRank["book"] = 3
    BY DEF DiscoveryRank, Mutexes
  <2>3. \A i, j \in 1..3 : i < j => (i = 1 /\ j = 2) \/ (i = 1 /\ j = 3) \/ (i = 2 /\ j = 3)
    OBVIOUS
  <2> QED BY <2>1, <2>2, <2>3 DEF Ascends
<1>6. CASE \A t \in ts : HandleHello \notin ROLE[t]
  <2>1. ASSUME NEW t \in ts, NEW op \in ROLE[t], NEW k \in DOMAIN op
        PROVE  Ascends(DiscoveryRank, op[k])
    BY <1>1, <1>3, <1>5, <1>6, <2>1, SectionsKnown DEF SectionsOf
  <2> QED BY <1>2, <2>1
<1>7. CASE \A t \in ts : Discover \notin ROLE[t]
  <2>1. ASSUME NEW t \in ts, NEW op \in ROLE[t], NEW k \in DOMAIN op
        PROVE  Ascends(HelloRank, op[k])
    BY <1>1, <1>3, <1>4, <1>7, <2>1, SectionsKnown DEF SectionsOf
  <2> QED BY <1>2, <2>1
<1> QED BY <1>6, <1>7 DEF OneLockOrder

\* What a running thread still has to do are sections of its operations, and
\* it holds a part of the first.
LocksInv ==
    /\ running \in Deployments
    /\ todo \in [Threads -> Seq(Seq(Mutexes))]
    /\ taken \in [Threads -> Nat]
    /\ \A t \in Threads : taken[t] <= IF Idle(t) THEN 0 ELSE Len(Head(todo[t]))
    /\ \A t \in running : \A k \in DOMAIN todo[t] :
          \E op \in ROLE[t] : \E l \in DOMAIN op : todo[t][k] = op[l]

LEMMA LocksStart == LocksInit => LocksInv
<1> SUFFICES ASSUME LocksInit PROVE LocksInv
  OBVIOUS
<1>1. \A t \in Threads : todo[t] = <<>> /\ taken[t] = 0
  BY DEF LocksInit
<1>2. <<>> \in Seq(Seq(Mutexes))
  OBVIOUS
<1>3. todo \in [Threads -> Seq(Seq(Mutexes))] /\ taken \in [Threads -> Nat]
  BY <1>2 DEF LocksInit
<1>4. running \in Deployments /\ running \subseteq Threads
  BY RoleAssumption DEF LocksInit
<1> QED BY <1>1, <1>3, <1>4 DEF LocksInv, Idle

LEMMA LocksStep == LocksInv /\ [LocksNext]_lockVars => LocksInv'
<1> SUFFICES ASSUME LocksInv, [LocksNext]_lockVars PROVE LocksInv'
  OBVIOUS
<1>1. running \subseteq Threads
  BY RoleAssumption DEF LocksInv
<1>2. ASSUME NEW t \in running, Begin(t) PROVE LocksInv'
  <2>1. PICK op \in ROLE[t] : todo' = [todo EXCEPT ![t] = op]
    BY <1>2 DEF Begin
  <2>2. op \in Seq(Seq(Mutexes))
    BY <1>1, RoleAssumption
  <2>3. taken[t] = 0 /\ UNCHANGED <<running, taken>>
    BY <1>1, <1>2 DEF Begin, LocksInv
  <2>4. todo' \in [Threads -> Seq(Seq(Mutexes))]
    BY <2>1, <2>2 DEF LocksInv
  <2>5. \A u \in Threads : taken[u] <= IF todo'[u] = <<>> THEN 0 ELSE Len(Head(todo'[u]))
    <3> SUFFICES ASSUME NEW u \in Threads
                 PROVE  taken[u] <= IF todo'[u] = <<>> THEN 0 ELSE Len(Head(todo'[u]))
      OBVIOUS
    <3>1. CASE u # t
      BY <2>1, <3>1 DEF LocksInv, Idle
    <3>2. CASE u = t
      <4>1. todo'[u] = op
        BY <1>1, <2>1, <3>2 DEF LocksInv
      <4>2. CASE op = <<>>
        BY <2>3, <3>2, <4>1, <4>2
      <4>3. CASE op # <<>>
        <5>1. Head(op) \in Seq(Mutexes)
          BY <2>2, <4>3
        <5> QED BY <2>3, <3>2, <4>1, <4>3, <5>1
      <4> QED BY <4>2, <4>3
    <3> QED BY <3>1, <3>2
  <2>6. ASSUME NEW u \in running, NEW k \in DOMAIN todo'[u]
        PROVE  \E o \in ROLE[u] : \E l \in DOMAIN o : todo'[u][k] = o[l]
    <3>1. CASE u = t
      BY <1>1, <2>1, <2>6, <3>1 DEF LocksInv
    <3>2. CASE u # t
      BY <1>1, <2>1, <2>6, <3>2 DEF LocksInv
    <3> QED BY <3>1, <3>2
  <2> QED BY <2>3, <2>4, <2>5, <2>6 DEF LocksInv, Idle
<1>3. ASSUME NEW t \in running, Lock(t) PROVE LocksInv'
  <2>1. /\ taken' = [taken EXCEPT ![t] = taken[t] + 1] /\ UNCHANGED <<running, todo>>
        /\ ~Idle(t) /\ taken[t] # Len(Head(todo[t]))
    BY <1>3 DEF Lock, Wants
  <2>2. taken[t] \in Nat /\ taken[t] <= Len(Head(todo[t])) /\ Len(Head(todo[t])) \in Nat
    <3>1. todo[t] \in Seq(Seq(Mutexes)) /\ todo[t] # <<>>
      BY <1>1, <2>1 DEF LocksInv, Idle
    <3>2. Head(todo[t]) \in Seq(Mutexes)
      BY <3>1
    <3>3. taken[t] \in Nat /\ taken[t] <= Len(Head(todo[t]))
      BY <1>1, <2>1 DEF LocksInv
    <3> QED BY <3>2, <3>3
  <2>3. taken[t] + 1 <= Len(Head(todo[t])) /\ taken[t] + 1 \in Nat
    BY <2>1, <2>2
  <2>4. taken' \in [Threads -> Nat] /\ \A u \in Threads : taken'[u] = IF u = t THEN taken[t] + 1 ELSE taken[u]
    BY <1>1, <2>1, <2>3 DEF LocksInv
  <2> QED BY <2>1, <2>3, <2>4 DEF LocksInv, Idle
<1>4. ASSUME NEW t \in running, Unlock(t) PROVE LocksInv'
  <2>1. /\ todo' = [todo EXCEPT ![t] = Tail(todo[t])] /\ taken' = [taken EXCEPT ![t] = 0]
        /\ UNCHANGED running /\ todo[t] # <<>>
    BY <1>4 DEF Unlock, Idle
  <2>2. todo[t] \in Seq(Seq(Mutexes)) /\ Tail(todo[t]) \in Seq(Seq(Mutexes))
    BY <1>1, <2>1 DEF LocksInv
  <2>3. /\ todo' \in [Threads -> Seq(Seq(Mutexes))] /\ taken' \in [Threads -> Nat]
        /\ todo'[t] = Tail(todo[t]) /\ taken'[t] = 0
        /\ \A u \in Threads \ {t} : todo'[u] = todo[u] /\ taken'[u] = taken[u]
    BY <1>1, <2>1, <2>2 DEF LocksInv
  <2>4. \A u \in Threads : taken'[u] <= IF todo'[u] = <<>> THEN 0 ELSE Len(Head(todo'[u]))
    <3> SUFFICES ASSUME NEW u \in Threads
                 PROVE  taken'[u] <= IF todo'[u] = <<>> THEN 0 ELSE Len(Head(todo'[u]))
      OBVIOUS
    <3>1. CASE u # t
      BY <2>3, <3>1 DEF LocksInv, Idle
    <3>2. CASE u = t
      <4>1. todo'[u] # <<>> => Len(Head(todo'[u])) \in Nat
        BY <2>3
      <4> QED BY <2>3, <3>2, <4>1
    <3> QED BY <3>1, <3>2
  <2>5. ASSUME NEW u \in running, NEW k \in DOMAIN todo'[u]
        PROVE  \E o \in ROLE[u] : \E l \in DOMAIN o : todo'[u][k] = o[l]
    <3>1. CASE u = t
      <4>1. k + 1 \in DOMAIN todo[t] /\ todo'[u][k] = todo[t][k + 1]
        BY <2>1, <2>2, <2>3, <2>5, <3>1
      <4> QED BY <3>1, <4>1 DEF LocksInv
    <3>2. CASE u # t
      BY <1>1, <2>3, <2>5, <3>2 DEF LocksInv
    <3> QED BY <3>1, <3>2
  <2> QED BY <2>1, <2>3, <2>4, <2>5 DEF LocksInv, Idle
<1>5. CASE UNCHANGED lockVars
  BY <1>5 DEF lockVars, LocksInv, Idle
<1> QED BY <1>2, <1>3, <1>4, <1>5 DEF LocksNext

\* Whoever waits for the mutex of the highest rank waits for a thread that
\* does not wait.
LEMMA NoCircle == ASSUME LocksInv, OneLockOrder PROVE NoDeadlock
<1> SUFFICES ASSUME NEW ts \in SUBSET running, ts # {},
                    \A t \in ts : Waiting(t, ts)
             PROVE  FALSE
  BY DEF NoDeadlock
<1>1. running \in Deployments /\ running \subseteq Threads
  BY RoleAssumption DEF LocksInv
<1>2. PICK rank \in [Mutexes -> 1..3] :
         \A t \in running : \A op \in ROLE[t] : \A k \in DOMAIN op : Ascends(rank, op[k])
  BY <1>1, OrderExists
<1> DEFINE wanted == UNION {Wants(t) : t \in ts}
           gaps == {3 - rank[m] : m \in wanted}
<1>3. ASSUME NEW t \in ts
      PROVE  /\ Head(todo[t]) \in Seq(Mutexes) /\ todo[t] # <<>>
             /\ taken[t] \in Nat /\ taken[t] < Len(Head(todo[t]))
             /\ Wants(t) = {Head(todo[t])[taken[t] + 1]}
             /\ Held(t) = {Head(todo[t])[i] : i \in 1..taken[t]}
             /\ Ascends(rank, Head(todo[t]))
  <2>1. t \in Threads /\ t \in running /\ Wants(t) # {}
    BY <1>1, <1>3 DEF Waiting
  <2>2. ~Idle(t) /\ taken[t] # Len(Head(todo[t]))
    BY <2>1 DEF Wants
  <2>3. todo[t] \in Seq(Seq(Mutexes)) /\ todo[t] # <<>>
    BY <2>1, <2>2 DEF LocksInv, Idle
  <2>4. Head(todo[t]) \in Seq(Mutexes) /\ 1 \in DOMAIN todo[t] /\ Head(todo[t]) = todo[t][1]
    BY <2>3
  <2>5. taken[t] \in Nat /\ taken[t] <= Len(Head(todo[t])) /\ Len(Head(todo[t])) \in Nat
    BY <2>1, <2>2, <2>4 DEF LocksInv
  <2>6. taken[t] < Len(Head(todo[t]))
    BY <2>2, <2>5
  <2>7. PICK op \in ROLE[t] : \E l \in DOMAIN op : todo[t][1] = op[l]
    BY <2>1, <2>4 DEF LocksInv
  <2>8. Ascends(rank, Head(todo[t]))
    BY <1>2, <2>1, <2>4, <2>7
  <2> QED BY <2>2, <2>3, <2>4, <2>5, <2>6, <2>8 DEF Wants, Held
<1>4. ASSUME NEW t \in ts PROVE Wants(t) \subseteq Mutexes /\ Wants(t) # {}
  <2>1. taken[t] + 1 \in 1..Len(Head(todo[t]))
    BY <1>3
  <2>2. Head(todo[t])[taken[t] + 1] \in Mutexes
    BY <1>3, <2>1
  <2> QED BY <1>3, <2>2
<1>5. wanted \subseteq Mutexes /\ wanted # {}
  BY <1>4
<1>6. gaps \subseteq Nat /\ gaps # {}
  BY <1>5
<1>7. PICK m \in wanted : \A k \in wanted : 3 - rank[m] <= 3 - rank[k]
  <2>1. PICK g \in gaps : \A k \in gaps : g <= k
    <3> HIDE DEF gaps
    <3> QED BY <1>6, LeastNat
  <2> QED BY <2>1
<1>8. PICK t \in ts : m \in Wants(t)
  OBVIOUS
<1>9. PICK u \in ts : m \in Held(u)
  <2>1. PICK k \in Wants(t) : \E u \in ts : k \in Held(u)
    BY DEF Waiting
  <2>2. k = m
    BY <1>3, <1>8, <2>1
  <2> QED BY <2>1, <2>2
<1>10. PICK i \in 1..taken[u] : m = Head(todo[u])[i]
  BY <1>3, <1>9
<1> DEFINE n == Head(todo[u])[taken[u] + 1]
<1>11. /\ i \in DOMAIN Head(todo[u]) /\ taken[u] + 1 \in DOMAIN Head(todo[u])
       /\ i < taken[u] + 1
  BY <1>3, <1>10
<1>12. rank[m] < rank[n] /\ n \in wanted
  BY <1>3, <1>10, <1>11 DEF Ascends
<1>13. rank[m] \in 1..3 /\ rank[n] \in 1..3
  BY <1>5, <1>12
<1> QED BY <1>7, <1>12, <1>13

\* Among the threads of a node none ever waits in a circle, unless one may
\* handle the Hello of a listening peer while another one discovers peers:
\* those two alone disagree about the order of the mutexes.
THEOREM LocksNeverCircle == OneLockOrder => (LocksSpec => []NoDeadlock)
<1> SUFFICES ASSUME OneLockOrder PROVE LocksSpec => []NoDeadlock
  OBVIOUS
<1>1. LocksInit => LocksInv
  BY LocksStart
<1>2. LocksInv /\ [LocksNext]_lockVars => LocksInv'
  BY LocksStep
<1>3. LocksInv => NoDeadlock
  BY NoCircle
<1> QED BY <1>1, <1>2, <1>3, PTL DEF LocksSpec

-----------------------------------------------------------------------------
(***************************************************************************)
(* The handshake and the frames of one connection.                         *)
(***************************************************************************)
Keys == {"none", "shared", "unknown", "rejected"} \X {"none", "i2r", "r2i"}

HeaderItems == [kind : {"header"}, magic : BOOLEAN, version : Versions, network : Networks,
                intact : BOOLEAN]
EkItems     == [kind : {"ek"}, intact : BOOLEAN]
CtItems     == [kind : {"ct"}, secret : {"shared", "unknown"}, intact : BOOLEAN]
Frames      == [kind : {"frame"}, key : Keys, nonce : Nat, body : Bodies, intact : BOOLEAN]
Items       == HeaderItems \cup EkItems \cup CtItems \cup Frames

Phases == {"start", "open"} \cup Handshaking \cup Ended

TransportTypeOK ==
    /\ version \in [Sides -> Versions] /\ network \in [Sides -> Networks]
    /\ phase \in [Sides -> Phases]
    /\ wire \in [Sides -> Seq(Items)]
    /\ sendKey \in [Sides -> Keys]
    /\ sealCount \in [Sides -> Nat] /\ openCount \in [Sides -> Nat]
    /\ sealed \in [Sides -> Seq(Frames)]
    /\ got \in [Sides -> Seq(Bodies)]
    /\ rewritten \subseteq Sides

\* A side seals only when its keys are set, and keeps them from then on: the
\* handshake sets the label of its own direction.
KeysAreOwn ==
    \A s \in Sides :
        /\ phase[s] \in {"start"} \cup Handshaking => sealed[s] = <<>>
        /\ phase[s] = "open" \/ sealed[s] # <<>> => sendKey[s][2] = Label(s)

\* The frames of a side are numbered from zero under its key.
SealedInOrder ==
    \A s \in Sides :
        /\ Len(sealed[s]) = sealCount[s]
        /\ \A i \in DOMAIN sealed[s] :
              sealed[s][i].nonce = i - 1 /\ sealed[s][i].key = sendKey[s]

\* An intact frame on the wire is one that was sealed, at the place its nonce
\* names.
WireIsSealed ==
    \A s \in Sides : \A i \in DOMAIN wire[s] :
        wire[s][i].kind = "frame" /\ wire[s][i].intact =>
            /\ wire[s][i].nonce + 1 \in DOMAIN sealed[s]
            /\ wire[s][i].body = sealed[s][wire[s][i].nonce + 1].body

CountsWhatItOpened == \A s \in Sides : openCount[s] = Len(got[Peer(s)])

TransportInv ==
    /\ TransportTypeOK
    /\ KeysAreOwn
    /\ SealedInOrder
    /\ WireIsSealed
    /\ CountsWhatItOpened

-----------------------------------------------------------------------------
LEMMA TwoSides ==
    \A s \in Sides : /\ Peer(s) \in Sides /\ Peer(s) # s /\ Peer(Peer(s)) = s
                     /\ Label(s) # Label(Peer(s))
                     /\ Label(s) \in {"i2r", "r2i"}
  BY DEF Sides, Peer, Label

\* What the code may write to the wire, and what may become of it there.
LEMMA ItemTypes ==
    ASSUME version \in [Sides -> Versions], network \in [Sides -> Networks]
    PROVE  /\ \A s \in Sides : Header(s) \in Items /\ Header(s).kind = "header"
           /\ EncapsKey \in Items /\ EncapsKey.kind = "ek"
           /\ \A x \in Items : CipherText(x) \in Items /\ CipherText(x).kind = "ct"
  BY DEF Items, HeaderItems, EkItems, CtItems, Frames, Header, EncapsKey, CipherText, Secret

LEMMA DamagedTypes ==
    ASSUME NEW x \in Items, NEW y \in Damaged(x)
    PROVE  y \in Items /\ ~y.intact
<1>1. CASE x \in HeaderItems
  BY <1>1 DEF Items, HeaderItems, Damaged
<1>2. CASE x \in EkItems
  BY <1>2 DEF Items, EkItems, Damaged
<1>3. CASE x \in CtItems
  BY <1>3 DEF Items, CtItems, Damaged
<1>4. CASE x \in Frames
  <2>1. PICK b \in Bodies : y = [x EXCEPT !.intact = FALSE, !.body = b]
    BY <1>4 DEF Frames, Damaged
  <2>2. y \in Frames /\ ~y.intact
    BY <1>4, <2>1 DEF Frames
  <2> QED BY <2>2 DEF Items
<1> QED BY <1>1, <1>2, <1>3, <1>4 DEF Items

LEMMA SecretTypes ==
    \A x : /\ Secret(x) \in {"none", "shared", "unknown", "rejected"}
           /\ Decaps(x) \in {"none", "shared", "unknown", "rejected"}
  BY DEF Secret, Decaps

\* Reading takes the first item of the peer and appends what is answered.
LEMMA RestTypes ==
    ASSUME wire \in [Sides -> Seq(Items)], NEW s \in Sides, NEW out \in Seq(Items),
           wire[Peer(s)] # <<>>
    PROVE  /\ Rest(s, out) \in [Sides -> Seq(Items)]
           /\ Rest(s, out)[s] = wire[s] \o out
           /\ Rest(s, out)[Peer(s)] = Tail(wire[Peer(s)])
           /\ Item(s) \in Items
<1>1. Peer(s) \in Sides /\ Peer(s) # s
  BY TwoSides
<1>2. wire[s] \in Seq(Items) /\ wire[Peer(s)] \in Seq(Items)
  BY <1>1
<1>3. wire[s] \o out \in Seq(Items)
  BY <1>2
<1>4. Tail(wire[Peer(s)]) \in Seq(Items) /\ Head(wire[Peer(s)]) \in Items
  BY <1>2
<1>5. Rest(s, out) = [[wire EXCEPT ![Peer(s)] = Tail(wire[Peer(s)])]
                        EXCEPT ![s] = wire[s] \o out]
  BY <1>1 DEF Rest
<1>6. Rest(s, out) \in [Sides -> Seq(Items)]
  BY <1>1, <1>3, <1>4, <1>5
<1>7. Rest(s, out)[s] = wire[s] \o out
  BY <1>1, <1>5
<1>8. Rest(s, out)[Peer(s)] = Tail(wire[Peer(s)])
  BY <1>1, <1>5
<1> QED BY <1>4, <1>6, <1>7, <1>8 DEF Item

LEMMA TypeInit == TransportInit => TransportTypeOK
<1> SUFFICES ASSUME TransportInit PROVE TransportTypeOK
  OBVIOUS
<1>1. NoKey \in Keys
  BY DEF NoKey, Keys
<1>2. phase \in [Sides -> Phases]
  BY DEF TransportInit, Phases, Handshaking
<1>3. <<>> \in Seq(Items) /\ <<>> \in Seq(Frames) /\ <<>> \in Seq(Bodies)
  OBVIOUS
<1> QED BY <1>1, <1>2, <1>3 DEF TransportInit, TransportTypeOK

LEMMA GoesType ==
    ASSUME phase \in [Sides -> Phases], NEW s \in Sides, NEW p \in Phases, Goes(s, p)
    PROVE  /\ phase' \in [Sides -> Phases]
           /\ phase'[s] = p
           /\ \A u \in Sides \ {s} : phase'[u] = phase[u]
  BY DEF Goes

LEMMA SplitType ==
    ASSUME phase \in [Sides -> Phases], sendKey \in [Sides -> Keys],
           NEW s \in Sides, NEW x \in {"none", "shared", "unknown", "rejected"},
           Split(s, x)
    PROVE  /\ phase' \in [Sides -> Phases]
           /\ sendKey' \in [Sides -> Keys]
           /\ sendKey'[s] = <<x, Label(s)>>
           /\ \A u \in Sides \ {s} : sendKey'[u] = sendKey[u] /\ phase'[u] = phase[u]
           /\ phase'[s] = "open"
<1>1. "open" \in Phases
  BY DEF Phases
<1>2. <<x, Label(s)>> \in Keys
  BY TwoSides DEF Keys
<1>3. Goes(s, "open") /\ sendKey' = [sendKey EXCEPT ![s] = <<x, Label(s)>>]
  BY DEF Split, Key
<1> QED BY <1>1, <1>2, <1>3, GoesType

-----------------------------------------------------------------------------
\* The intact frames on the wire after a step were there before it.
WireKept ==
    \A u \in Sides : \A i \in DOMAIN wire'[u] :
        wire'[u][i].kind = "frame" /\ wire'[u][i].intact =>
            \E j \in DOMAIN wire[u] : wire[u][j] = wire'[u][i]

\* A side never goes back to the handshake, and sets its key only in it.
KeysKept ==
    \A u \in Sides :
        /\ phase'[u] \in {"start"} \cup Handshaking => phase[u] \in {"start"} \cup Handshaking
        /\ sendKey'[u] = sendKey[u] \/ (sealed[u] = <<>> /\ sendKey'[u][2] = Label(u))
        /\ phase'[u] = "open" => phase[u] = "open" \/ sendKey'[u][2] = Label(u)

\* Nothing is sealed or opened, and a header that was altered stays so.
HistoryKept ==
    /\ UNCHANGED <<sealed, got>>
    /\ rewritten \subseteq rewritten' /\ rewritten' \subseteq Sides

LEMMA SameHistory ==
    ASSUME TransportTypeOK, UNCHANGED history
    PROVE  HistoryKept
  BY DEF TransportTypeOK, history, HistoryKept

\* The steps in which nothing is sealed or opened.
LEMMA QuietStep ==
    ASSUME TransportInv, UNCHANGED <<ends, counters>>, HistoryKept,
           phase' \in [Sides -> Phases], wire' \in [Sides -> Seq(Items)],
           sendKey' \in [Sides -> Keys], WireKept, KeysKept
    PROVE  TransportInv'
<1> USE DEF TransportInv, ends, counters, HistoryKept
<1>1. TransportTypeOK'
  BY DEF TransportTypeOK
<1>2. KeysAreOwn'
  BY DEF KeysAreOwn, KeysKept
<1>3. SealedInOrder'
  <2> SUFFICES ASSUME NEW s \in Sides
               PROVE  /\ Len(sealed[s]) = sealCount[s]
                      /\ \A i \in DOMAIN sealed[s] :
                            sealed[s][i].nonce = i - 1 /\ sealed[s][i].key = sendKey'[s]
    BY DEF SealedInOrder
  <2>1. /\ Len(sealed[s]) = sealCount[s]
        /\ \A i \in DOMAIN sealed[s] :
              sealed[s][i].nonce = i - 1 /\ sealed[s][i].key = sendKey[s]
    BY DEF SealedInOrder
  <2>2. sendKey'[s] = sendKey[s] \/ sealed[s] = <<>>
    BY DEF KeysKept
  <2>3. CASE sendKey'[s] = sendKey[s]
    BY <2>1, <2>3
  <2>4. CASE sealed[s] = <<>>
    BY <2>1, <2>4
  <2> QED BY <2>2, <2>3, <2>4
<1>4. WireIsSealed'
  <2> SUFFICES ASSUME NEW s \in Sides, NEW i \in DOMAIN wire'[s],
                      wire'[s][i].kind = "frame" /\ wire'[s][i].intact
               PROVE  /\ wire'[s][i].nonce + 1 \in DOMAIN sealed[s]
                      /\ wire'[s][i].body = sealed[s][wire'[s][i].nonce + 1].body
    BY DEF WireIsSealed
  <2>1. PICK j \in DOMAIN wire[s] : wire[s][j] = wire'[s][i]
    BY DEF WireKept
  <2> QED BY <2>1 DEF WireIsSealed
<1>5. CountsWhatItOpened'
  BY DEF CountsWhatItOpened
<1> QED BY <1>1, <1>2, <1>3, <1>4, <1>5

LEMMA RestKeeps ==
    ASSUME wire \in [Sides -> Seq(Items)], NEW s \in Sides, NEW out \in Seq(Items),
           \A i \in DOMAIN out : out[i].kind # "frame",
           wire[Peer(s)] # <<>>, wire' = Rest(s, out)
    PROVE  WireKept
<1>1. /\ Peer(s) \in Sides /\ Peer(s) # s /\ Sides = {s, Peer(s)}
      /\ wire[s] \in Seq(Items) /\ wire[Peer(s)] \in Seq(Items)
  BY TwoSides DEF Sides, Peer
<1>2. wire'[s] = wire[s] \o out /\ wire'[Peer(s)] = Tail(wire[Peer(s)])
  BY RestTypes
<1>3. ASSUME NEW i \in DOMAIN wire'[s], wire'[s][i].kind = "frame"
      PROVE  \E j \in DOMAIN wire[s] : wire[s][j] = wire'[s][i]
  <2>1. i \in 1..(Len(wire[s]) + Len(out))
    BY <1>1, <1>2, <1>3
  <2>2. CASE i <= Len(wire[s])
    BY <1>1, <1>2, <2>1, <2>2
  <2>3. CASE i > Len(wire[s])
    <3>1. i - Len(wire[s]) \in DOMAIN out /\ wire'[s][i] = out[i - Len(wire[s])]
      BY <1>1, <1>2, <2>1, <2>3
    <3> QED BY <1>3, <3>1
  <2> QED BY <1>1, <2>1, <2>2, <2>3
<1>4. ASSUME NEW i \in DOMAIN wire'[Peer(s)]
      PROVE  \E j \in DOMAIN wire[Peer(s)] : wire[Peer(s)][j] = wire'[Peer(s)][i]
  <2>1. i + 1 \in DOMAIN wire[Peer(s)] /\ wire[Peer(s)][i + 1] = wire'[Peer(s)][i]
    BY <1>1, <1>2, <1>4
  <2> QED BY <2>1
<1> QED BY <1>1, <1>3, <1>4 DEF WireKept
-----------------------------------------------------------------------------
\* A side that only moves on, without a key.
LEMMA PhaseStep ==
    ASSUME TransportInv, NEW s \in Sides, NEW p \in Phases \ {"start", "open"},
           p \in Handshaking => phase[s] \in {"start"} \cup Handshaking,
           Goes(s, p), WireKept, wire' \in [Sides -> Seq(Items)],
           UNCHANGED <<ends, keys, counters, history>>
    PROVE  TransportInv'
<1>1. phase \in [Sides -> Phases] /\ sendKey \in [Sides -> Keys]
  BY DEF TransportInv, TransportTypeOK
<1>2. /\ phase' \in [Sides -> Phases] /\ phase'[s] = p
      /\ \A u \in Sides \ {s} : phase'[u] = phase[u]
  BY <1>1, GoesType
<1>3. sendKey' = sendKey
  BY DEF keys
<1>4. KeysKept
  BY <1>2, <1>3 DEF KeysKept
<1>5. HistoryKept
  BY SameHistory DEF TransportInv
<1> QED BY <1>1, <1>2, <1>3, <1>4, <1>5, QuietStep

LEMMA SameWireKept ==
    ASSUME TransportTypeOK, UNCHANGED wire
    PROVE  WireKept /\ wire' \in [Sides -> Seq(Items)]
  BY DEF WireKept, TransportTypeOK

LEMMA PhaseNames ==
    /\ {"header", "ek", "ct", "failed", "closed", "refused"} \subseteq Phases \ {"start", "open"}
    /\ Handshaking = {"header", "ek", "ct"} /\ Phases = {"start", "open"} \cup Handshaking \cup Ended
    /\ Ended \cap Handshaking = {} /\ Ended = {"failed", "closed", "refused"}
  BY DEF Phases, Handshaking, Ended

LEMMA GreetKeeps == ASSUME TransportInv, Greet PROVE TransportInv'
<1> DEFINE s == "initiator"
<1>1. s \in Sides /\ phase[s] = "start" /\ Goes(s, "header")
  BY DEF Greet, Sides
<1>2. wire \in [Sides -> Seq(Items)] /\ Header(s) \in Items /\ Header(s).kind = "header"
  BY <1>1, ItemTypes DEF TransportInv, TransportTypeOK
<1>3. wire' = [wire EXCEPT ![s] = Append(@, Header(s))]
  BY DEF Greet
<1> HIDE DEF s
<1>4. wire' \in [Sides -> Seq(Items)]
  BY <1>1, <1>2, <1>3
<1>5. WireKept
  <2> SUFFICES ASSUME NEW u \in Sides, NEW i \in DOMAIN wire'[u],
                      wire'[u][i].kind = "frame"
               PROVE  \E j \in DOMAIN wire[u] : wire[u][j] = wire'[u][i]
    BY DEF WireKept
  <2>1. CASE u # s
    BY <1>1, <1>2, <1>3, <2>1
  <2>2. CASE u = s
    <3>1. wire[s] \in Seq(Items) /\ wire'[s] = Append(wire[s], Header(s))
      BY <1>1, <1>2, <1>3
    <3>2. i \in 1..(Len(wire[s]) + 1)
      BY <1>2, <2>2, <3>1
    <3>3. CASE i <= Len(wire[s])
      BY <1>2, <2>2, <3>1, <3>2, <3>3
    <3>4. CASE i > Len(wire[s])
      <4>1. wire'[s][i] = Header(s)
        BY <1>2, <3>1, <3>2, <3>4
      <4> QED BY <1>2, <2>2, <4>1
    <3> QED BY <3>1, <3>2, <3>3, <3>4
  <2> QED BY <2>1, <2>2
<1>6. UNCHANGED <<ends, keys, counters, history>>
  BY DEF Greet
<1> QED BY <1>1, <1>4, <1>5, <1>6, PhaseNames, PhaseStep

LEMMA ReadHeaderKeeps ==
    ASSUME TransportInv, NEW s \in Sides, ReadHeader(s) PROVE TransportInv'
<1>1. /\ wire \in [Sides -> Seq(Items)] /\ TransportTypeOK
      /\ Header(s) \in Items /\ Header(s).kind = "header"
      /\ EncapsKey \in Items /\ EncapsKey.kind = "ek"
  BY ItemTypes DEF TransportInv, TransportTypeOK
<1>2. Reads(s, "header", "header") /\ wire[Peer(s)] # <<>> /\ phase[s] = "header"
  BY DEF ReadHeader, Reads
<1>3. PICK p \in {"ek", "ct", "failed"}, out \in {<<>>, <<Header(s), EncapsKey>>} :
         Goes(s, p) /\ wire' = Rest(s, out)
  BY DEF ReadHeader
<1>4. out \in Seq(Items)
  <2>1. CASE out = <<>>
    BY <2>1
  <2>2. CASE out = <<Header(s), EncapsKey>>
    BY <1>1, <2>2
  <2> QED BY <2>1, <2>2
<1>5. \A i \in DOMAIN out : out[i].kind # "frame"
  <2>1. CASE out = <<>>
    BY <2>1
  <2>2. CASE out = <<Header(s), EncapsKey>>
    BY <1>1, <2>2
  <2> QED BY <1>3, <2>1, <2>2
<1>6. wire' \in [Sides -> Seq(Items)]
  BY <1>1, <1>2, <1>3, <1>4, RestTypes
<1>7. WireKept
  BY <1>1, <1>2, <1>3, <1>4, <1>5, RestKeeps
<1>8. UNCHANGED <<ends, keys, counters, history>>
  BY DEF ReadHeader
<1> QED BY <1>2, <1>3, <1>6, <1>7, <1>8, PhaseNames, PhaseStep

\* The two steps that set the keys.
LEMMA SplitStep ==
    ASSUME TransportInv, NEW s \in Sides, phase[s] \in Handshaking,
           NEW x \in {"none", "shared", "unknown", "rejected"}, Split(s, x),
           WireKept, wire' \in [Sides -> Seq(Items)],
           UNCHANGED <<ends, counters, history>>
    PROVE  TransportInv'
<1>1. phase \in [Sides -> Phases] /\ sendKey \in [Sides -> Keys]
  BY DEF TransportInv, TransportTypeOK
<1>2. /\ phase' \in [Sides -> Phases] /\ sendKey' \in [Sides -> Keys]
      /\ sendKey'[s] = <<x, Label(s)>> /\ phase'[s] = "open"
      /\ \A u \in Sides \ {s} : sendKey'[u] = sendKey[u] /\ phase'[u] = phase[u]
  BY <1>1, SplitType
<1>3. sealed[s] = <<>>
  BY DEF TransportInv, KeysAreOwn
<1>4. sendKey'[s][2] = Label(s) /\ "open" \notin {"start"} \cup Handshaking
  BY <1>2 DEF Handshaking
<1>5. KeysKept
  <2> SUFFICES ASSUME NEW u \in Sides
               PROVE  /\ phase'[u] \in {"start"} \cup Handshaking
                            => phase[u] \in {"start"} \cup Handshaking
                      /\ sendKey'[u] = sendKey[u]
                            \/ (sealed[u] = <<>> /\ sendKey'[u][2] = Label(u))
                      /\ phase'[u] = "open" => phase[u] = "open" \/ sendKey'[u][2] = Label(u)
    BY DEF KeysKept
  <2>1. CASE u = s
    BY <1>2, <1>3, <1>4, <2>1
  <2>2. CASE u # s
    BY <1>2, <2>2
  <2> QED BY <2>1, <2>2
<1>6. HistoryKept
  BY SameHistory DEF TransportInv
<1> QED BY <1>2, <1>5, <1>6, QuietStep

LEMMA ReadKeyKeeps ==
    ASSUME TransportInv, NEW s \in Sides, ReadKey(s) PROVE TransportInv'
<1>1. wire \in [Sides -> Seq(Items)] /\ wire[Peer(s)] # <<>> /\ phase[s] \in Handshaking
  BY DEF TransportInv, TransportTypeOK, ReadKey, Reads, Handshaking
<1>2. Item(s) \in Items
  BY <1>1, TwoSides DEF Item
<1> DEFINE out == <<CipherText(Item(s))>>
<1>3. CipherText(Item(s)) \in Items /\ CipherText(Item(s)).kind = "ct"
  BY <1>2, ItemTypes DEF TransportInv, TransportTypeOK
<1>4. out \in Seq(Items) /\ \A i \in DOMAIN out : out[i].kind # "frame"
  BY <1>3
<1>5. wire' = Rest(s, out)
  BY DEF ReadKey
<1> HIDE DEF out
<1>6. wire' \in [Sides -> Seq(Items)]
  BY <1>1, <1>4, <1>5, RestTypes
<1>7. WireKept
  BY <1>1, <1>4, <1>5, RestKeeps
<1>8. Split(s, Secret(Item(s))) /\ UNCHANGED <<ends, counters, history>>
  BY DEF ReadKey
<1> QED BY <1>1, <1>6, <1>7, <1>8, SecretTypes, SplitStep

LEMMA ReadCipherTextKeeps ==
    ASSUME TransportInv, NEW s \in Sides, ReadCipherText(s) PROVE TransportInv'
<1>1. wire \in [Sides -> Seq(Items)] /\ wire[Peer(s)] # <<>> /\ phase[s] \in Handshaking
  BY DEF TransportInv, TransportTypeOK, ReadCipherText, Reads, Handshaking
<1>2. wire' = Rest(s, <<>>) /\ <<>> \in Seq(Items)
      /\ \A i \in DOMAIN <<>> : <<>>[i].kind # "frame"
  BY DEF ReadCipherText
<1>3. wire' \in [Sides -> Seq(Items)]
  BY <1>1, <1>2, RestTypes
<1>4. WireKept
  BY <1>1, <1>2, RestKeeps
<1>5. Split(s, Decaps(Item(s))) /\ UNCHANGED <<ends, counters, history>>
  BY DEF ReadCipherText
<1> QED BY <1>1, <1>3, <1>4, <1>5, SecretTypes, SplitStep

\* The steps that end a side, whether they read an item or not.
LEMMA EndKeeps ==
    ASSUME TransportInv, NEW s \in Sides, NEW p \in Ended, Goes(s, p),
           \/ UNCHANGED wire
           \/ wire[Peer(s)] # <<>> /\ wire' = Rest(s, <<>>),
           UNCHANGED <<ends, keys, counters, history>>
    PROVE  TransportInv'
<1>1. wire \in [Sides -> Seq(Items)] /\ TransportTypeOK
  BY DEF TransportInv, TransportTypeOK
<1>2. <<>> \in Seq(Items) /\ \A i \in DOMAIN <<>> : <<>>[i].kind # "frame"
  OBVIOUS
<1>3. WireKept /\ wire' \in [Sides -> Seq(Items)]
  <2>1. CASE UNCHANGED wire
    BY <1>1, <2>1, SameWireKept
  <2>2. CASE wire[Peer(s)] # <<>> /\ wire' = Rest(s, <<>>)
    BY <1>1, <1>2, <2>2, RestTypes, RestKeeps
  <2> QED BY <2>1, <2>2
<1>4. p \in Phases \ {"start", "open"} /\ p \notin Handshaking
  BY PhaseNames
<1> QED BY <1>3, <1>4, PhaseStep

LEMMA EndsKeep ==
    ASSUME TransportInv, NEW s \in Sides,
           \/ Malformed(s) \/ TimeOut(s) \/ EndOfStream(s) \/ Refuse(s) \/ Quit(s)
    PROVE  TransportInv'
<1> USE PhaseNames
<1>1. CASE Malformed(s)
  <2>1. wire[Peer(s)] # <<>> /\ wire' = Rest(s, <<>>) /\ Goes(s, "failed")
    BY <1>1 DEF Malformed, Reads
  <2>2. UNCHANGED <<ends, keys, counters, history>>
    BY <1>1 DEF Malformed
  <2> QED BY <2>1, <2>2, EndKeeps
<1>2. CASE TimeOut(s)
  <2>1. Goes(s, "failed") /\ UNCHANGED wire /\ UNCHANGED <<ends, keys, counters, history>>
    BY <1>2 DEF TimeOut
  <2> QED BY <2>1, EndKeeps
<1>3. CASE EndOfStream(s)
  <2>1. UNCHANGED wire /\ UNCHANGED <<ends, keys, counters, history>>
    BY <1>3 DEF EndOfStream
  <2>2. PICK p \in {"closed", "failed"} : Goes(s, p)
    BY <1>3 DEF EndOfStream
  <2> QED BY <2>1, <2>2, EndKeeps
<1>4. CASE Refuse(s)
  <2>1. wire[Peer(s)] # <<>> /\ wire' = Rest(s, <<>>) /\ Goes(s, "refused")
    BY <1>4 DEF Refuse, Reads
  <2>2. UNCHANGED <<ends, keys, counters, history>>
    BY <1>4 DEF Refuse
  <2> QED BY <2>1, <2>2, EndKeeps
<1>5. CASE Quit(s)
  <2>1. Goes(s, "closed") /\ UNCHANGED wire /\ UNCHANGED <<ends, keys, counters, history>>
    BY <1>5 DEF Quit
  <2> QED BY <2>1, EndKeeps
<1> QED BY <1>1, <1>2, <1>3, <1>4, <1>5

\* The network touches neither phases nor keys.
LEMMA NetworkStep ==
    ASSUME TransportInv, UNCHANGED <<ends, phase, keys, counters>>, HistoryKept,
           wire' \in [Sides -> Seq(Items)], WireKept
    PROVE  TransportInv'
<1>1. phase' \in [Sides -> Phases] /\ sendKey' \in [Sides -> Keys]
  BY DEF TransportInv, TransportTypeOK, keys
<1>2. KeysKept
  BY DEF KeysKept, keys
<1> QED BY <1>1, <1>2, QuietStep

LEMMA AlterKeeps == ASSUME TransportInv, NEW s \in Sides, Alter(s) PROVE TransportInv'
<1>1. wire \in [Sides -> Seq(Items)]
  BY DEF TransportInv, TransportTypeOK
<1>2. PICK i \in DOMAIN wire[s] : \E x \in Damaged(wire[s][i]) : wire' = [wire EXCEPT ![s][i] = x]
  BY DEF Alter
<1>3. PICK x \in Damaged(wire[s][i]) : wire' = [wire EXCEPT ![s][i] = x]
  BY <1>2
<1>4. wire[s] \in Seq(Items) /\ wire[s][i] \in Items
  BY <1>1, <1>2
<1>5. x \in Items /\ ~x.intact
  BY <1>4, DamagedTypes
<1>6. /\ [wire[s] EXCEPT ![i] = x] \in Seq(Items)
      /\ DOMAIN [wire[s] EXCEPT ![i] = x] = DOMAIN wire[s]
  BY <1>4, <1>5
<1>7. /\ wire' \in [Sides -> Seq(Items)]
      /\ wire'[s] = [wire[s] EXCEPT ![i] = x]
      /\ \A u \in Sides \ {s} : wire'[u] = wire[u]
  BY <1>1, <1>3, <1>6
<1>8. WireKept
  <2> SUFFICES ASSUME NEW u \in Sides, NEW j \in DOMAIN wire'[u], wire'[u][j].intact
               PROVE  \E k \in DOMAIN wire[u] : wire[u][k] = wire'[u][j]
    BY DEF WireKept
  <2>1. CASE u # s
    BY <1>7, <2>1
  <2>2. CASE u = s
    <3>1. j \in DOMAIN wire[s] /\ (j # i => wire'[s][j] = wire[s][j])
      BY <1>6, <1>7, <2>2
    <3>2. wire'[s][i] = x
      BY <1>2, <1>7
    <3>3. j # i
      BY <1>5, <2>2, <3>2
    <3> QED BY <2>2, <3>1, <3>3
  <2> QED BY <2>1, <2>2
<1>9. UNCHANGED <<ends, phase, keys, counters>> /\ HistoryKept
  BY DEF Alter, HistoryKept, TransportInv, TransportTypeOK
<1> QED BY <1>7, <1>8, <1>9, NetworkStep

LEMMA BreakKeeps == ASSUME TransportInv, Break PROVE TransportInv'
<1>1. wire \in [Sides -> Seq(Items)]
  BY DEF TransportInv, TransportTypeOK
<1>2. PICK n \in 0..Len(wire["initiator"]), m \in 0..Len(wire["responder"]) :
         wire' = [s \in Sides |-> SubSeq(wire[s], 1, IF s = "initiator" THEN n ELSE m)]
  BY DEF Break
<1>3. ASSUME NEW u \in Sides
      PROVE  /\ wire'[u] \in Seq(Items)
             /\ \A i \in DOMAIN wire'[u] : i \in DOMAIN wire[u] /\ wire'[u][i] = wire[u][i]
  <2>1. PICK k \in 0..Len(wire[u]) : wire'[u] = SubSeq(wire[u], 1, k)
    BY <1>2 DEF Sides
  <2>2. wire[u] \in Seq(Items)
    BY <1>1
  <2>3. SubSeq(wire[u], 1, k) \in Seq(Items) /\ Len(SubSeq(wire[u], 1, k)) = k
    BY <2>1, <2>2
  <2>4. \A i \in 1..k : SubSeq(wire[u], 1, k)[i] = wire[u][i]
    BY <2>1, <2>2
  <2> QED BY <2>1, <2>2, <2>3, <2>4
<1>4. wire' \in [Sides -> Seq(Items)]
  BY <1>2, <1>3
<1>5. WireKept
  BY <1>3 DEF WireKept
<1>6. UNCHANGED <<ends, phase, keys, counters>> /\ HistoryKept
  BY SameHistory DEF Break, TransportInv
<1> QED BY <1>4, <1>5, <1>6, NetworkStep
-----------------------------------------------------------------------------
\* What sending does to the sender's side of the invariant.
LEMMA SendFacts ==
    ASSUME TransportInv, NEW s \in Sides, NEW b \in Bodies, Send(s, b)
    PROVE  LET f == Frame(sendKey[s], sealCount[s], b)
           IN  /\ f \in Frames /\ f.body = b
               /\ sealed' = [sealed EXCEPT ![s] = Append(sealed[s], f)]
               /\ wire' = [wire EXCEPT ![s] = IF broken THEN wire[s] ELSE Append(wire[s], f)]
               /\ sealed[s] \in Seq(Frames) /\ wire[s] \in Seq(Items)
<1>1. sendKey[s] \in Keys /\ sealCount[s] \in Nat
  BY DEF TransportInv, TransportTypeOK
<1>2. Frame(sendKey[s], sealCount[s], b) \in Frames
  BY <1>1 DEF Frames, Frame
<1> QED BY <1>2 DEF Send, Frame, TransportInv, TransportTypeOK

LEMMA SendKeeps ==
    ASSUME TransportInv, NEW s \in Sides, NEW b \in Bodies, Send(s, b)
    PROVE  TransportInv'
<1> DEFINE f == Frame(sendKey[s], sealCount[s], b)
<1>1. /\ f \in Frames /\ f.body = b /\ f.nonce = sealCount[s] /\ f.key = sendKey[s]
      /\ sealed' = [sealed EXCEPT ![s] = Append(sealed[s], f)]
      /\ wire' = [wire EXCEPT ![s] = IF broken THEN wire[s] ELSE Append(wire[s], f)]
      /\ sealed[s] \in Seq(Frames) /\ wire[s] \in Seq(Items)
  BY SendFacts DEF Frame
<1>2. /\ sealCount' = [sealCount EXCEPT ![s] = sealCount[s] + 1]
      /\ UNCHANGED <<version, network, phase, sendKey, openCount, got, rewritten>>
      /\ phase[s] = "open"
  BY DEF Send, ends, keys
<1> HIDE DEF f
<1>3. /\ sealed \in [Sides -> Seq(Frames)] /\ wire \in [Sides -> Seq(Items)]
      /\ sealCount \in [Sides -> Nat] /\ TransportTypeOK
      /\ Len(sealed[s]) = sealCount[s] /\ sealCount[s] \in Nat
  BY DEF TransportInv, TransportTypeOK, SealedInOrder
<1>4. /\ sealed'[s] = Append(sealed[s], f) /\ sealed'[s] \in Seq(Frames)
      /\ \A u \in Sides \ {s} : sealed'[u] = sealed[u]
      /\ Len(sealed'[s]) = Len(sealed[s]) + 1
  BY <1>1, <1>3
<1>5. /\ \A i \in DOMAIN sealed[s] : i \in DOMAIN sealed'[s] /\ sealed'[s][i] = sealed[s][i]
      /\ \A i \in DOMAIN sealed'[s] : i \in DOMAIN sealed[s] \/ i = Len(sealed[s]) + 1
      /\ Len(sealed[s]) + 1 \in DOMAIN sealed'[s] /\ sealed'[s][Len(sealed[s]) + 1] = f
  BY <1>1, <1>4
<1>6. TransportTypeOK'
  <2>1. sealed' \in [Sides -> Seq(Frames)]
    BY <1>1, <1>3, <1>4
  <2>2. f \in Items
    BY <1>1 DEF Items
  <2>3. Append(wire[s], f) \in Seq(Items)
    BY <1>1, <2>2
  <2>4. wire' \in [Sides -> Seq(Items)]
    BY <1>1, <1>3, <2>3
  <2>5. sealCount' \in [Sides -> Nat]
    BY <1>2, <1>3
  <2> QED BY <1>2, <1>3, <2>1, <2>4, <2>5 DEF TransportTypeOK
<1>7. KeysAreOwn'
  <2>1. "open" \notin {"start"} \cup Handshaking
    BY DEF Handshaking
  <2>2. KeysAreOwn
    BY DEF TransportInv
  <2> SUFFICES ASSUME NEW u \in Sides
               PROVE  /\ phase[u] \in {"start"} \cup Handshaking => sealed'[u] = <<>>
                      /\ phase[u] = "open" \/ sealed'[u] # <<>> => sendKey[u][2] = Label(u)
    BY <1>2 DEF KeysAreOwn, Label
  <2>3. CASE u = s
    BY <1>2, <2>1, <2>2, <2>3 DEF KeysAreOwn
  <2>4. CASE u # s
    BY <1>4, <2>2, <2>4 DEF KeysAreOwn
  <2> QED BY <2>3, <2>4
<1>8. SealedInOrder'
  <2>1. SealedInOrder
    BY DEF TransportInv
  <2> SUFFICES ASSUME NEW u \in Sides
               PROVE  /\ Len(sealed'[u]) = sealCount'[u]
                      /\ \A i \in DOMAIN sealed'[u] :
                            sealed'[u][i].nonce = i - 1 /\ sealed'[u][i].key = sendKey[u]
    BY <1>2 DEF SealedInOrder
  <2>2. CASE u # s
    BY <1>2, <1>3, <1>4, <2>1, <2>2 DEF SealedInOrder
  <2>3. CASE u = s
    <3>1. Len(sealed'[s]) = sealCount'[s]
      BY <1>2, <1>3, <1>4
    <3>2. ASSUME NEW i \in DOMAIN sealed'[s]
          PROVE  sealed'[s][i].nonce = i - 1 /\ sealed'[s][i].key = sendKey[s]
      <4>1. CASE i \in DOMAIN sealed[s]
        BY <1>5, <2>1, <4>1 DEF SealedInOrder
      <4>2. CASE i = Len(sealed[s]) + 1
        <5>1. sealed'[s][i] = f
          BY <1>5, <4>2
        <5>2. i - 1 = sealCount[s]
          BY <1>3, <4>2
        <5> QED BY <1>1, <5>1, <5>2
      <4> QED BY <1>5, <3>2, <4>1, <4>2
    <3> QED BY <2>3, <3>1, <3>2
  <2> QED BY <2>2, <2>3
<1>9. WireIsSealed'
  <2>1. WireIsSealed
    BY DEF TransportInv
  <2> SUFFICES ASSUME NEW u \in Sides, NEW i \in DOMAIN wire'[u],
                      wire'[u][i].kind = "frame" /\ wire'[u][i].intact
               PROVE  /\ wire'[u][i].nonce + 1 \in DOMAIN sealed'[u]
                      /\ wire'[u][i].body = sealed'[u][wire'[u][i].nonce + 1].body
    BY DEF WireIsSealed
  <2>2. ASSUME i \in DOMAIN wire[u], wire'[u][i] = wire[u][i]
        PROVE  /\ wire'[u][i].nonce + 1 \in DOMAIN sealed'[u]
               /\ wire'[u][i].body = sealed'[u][wire'[u][i].nonce + 1].body
    <3>1. /\ wire[u][i].nonce + 1 \in DOMAIN sealed[u]
          /\ wire[u][i].body = sealed[u][wire[u][i].nonce + 1].body
      BY <2>1, <2>2 DEF WireIsSealed
    <3>2. CASE u = s
      BY <1>5, <2>2, <3>1, <3>2
    <3>3. CASE u # s
      BY <1>4, <2>2, <3>1, <3>3
    <3> QED BY <3>2, <3>3
  <2>3. CASE u # s \/ broken
    <3>1. wire'[u] = wire[u]
      BY <1>1, <1>3, <2>3
    <3> QED BY <2>2, <3>1
  <2>4. CASE u = s /\ ~broken
    <3>1. wire'[s] = Append(wire[s], f)
      BY <1>1, <1>3, <2>4
    <3>2. i \in 1..(Len(wire[s]) + 1)
      BY <1>1, <2>4, <3>1
    <3>3. CASE i \in DOMAIN wire[s]
      <4>1. wire'[s][i] = wire[s][i]
        BY <1>1, <3>1, <3>3
      <4> QED BY <2>2, <2>4, <3>3, <4>1
    <3>4. CASE i = Len(wire[s]) + 1
      <4>1. wire'[s][i] = f
        BY <1>1, <3>1, <3>4
      <4>2. f.nonce + 1 = Len(sealed[s]) + 1
        BY <1>1, <1>3
      <4> QED BY <1>5, <2>4, <4>1, <4>2
    <3> QED BY <1>1, <3>2, <3>3, <3>4
  <2> QED BY <2>3, <2>4
<1>10. CountsWhatItOpened'
  BY <1>2 DEF TransportInv, CountsWhatItOpened
<1> QED BY <1>6, <1>7, <1>8, <1>9, <1>10 DEF TransportInv

\* What is opened is the next frame that the peer has sealed.
LEMMA RecvFacts ==
    ASSUME TransportInv, NEW s \in Sides, Recv(s)
    PROVE  /\ Len(got[Peer(s)]) + 1 \in DOMAIN sealed[Peer(s)]
           /\ got' = [got EXCEPT ![Peer(s)] =
                         Append(got[Peer(s)], sealed[Peer(s)][Len(got[Peer(s)]) + 1].body)]
           /\ sealed[Peer(s)][Len(got[Peer(s)]) + 1].body \in Bodies
<1> DEFINE q == Peer(s)
           x == Head(wire[q])
<1>1. q \in Sides /\ wire[q] \in Seq(Items) /\ sealed[q] \in Seq(Frames)
  BY TwoSides DEF TransportInv, TransportTypeOK
<1>2. wire[q] # <<>> /\ x.kind = "frame" /\ Item(s) = x
  BY DEF Recv, Reads, Item
<1>3. x.intact /\ x.nonce = openCount[s]
  BY <1>2 DEF Recv, Opens, Decrypts
<1>4. openCount[s] = Len(got[q])
  BY DEF TransportInv, CountsWhatItOpened
<1>5. 1 \in DOMAIN wire[q] /\ wire[q][1] = x
  BY <1>1, <1>2
<1>6. x.nonce + 1 \in DOMAIN sealed[q] /\ x.body = sealed[q][x.nonce + 1].body
  BY <1>1, <1>2, <1>3, <1>5 DEF TransportInv, WireIsSealed
<1>7. sealed[q][x.nonce + 1] \in Frames
  BY <1>1, <1>6
<1>8. sealed[q][x.nonce + 1].body \in Bodies
  BY <1>7 DEF Frames
<1>9. got' = [got EXCEPT ![q] = Append(got[q], x.body)]
  BY <1>2 DEF Recv
<1> QED BY <1>3, <1>4, <1>6, <1>8, <1>9

LEMMA RecvKeeps == ASSUME TransportInv, NEW s \in Sides, Recv(s) PROVE TransportInv'
<1>1. /\ wire \in [Sides -> Seq(Items)] /\ wire[Peer(s)] # <<>> /\ wire' = Rest(s, <<>>)
      /\ UNCHANGED <<version, network, phase, sendKey, sealCount, sealed, rewritten>>
      /\ openCount' = [openCount EXCEPT ![s] = openCount[s] + 1]
  BY DEF TransportInv, TransportTypeOK, Recv, Reads, ends, keys
<1>2. <<>> \in Seq(Items) /\ \A i \in DOMAIN <<>> : <<>>[i].kind # "frame"
  OBVIOUS
<1>3. WireKept /\ wire' \in [Sides -> Seq(Items)]
  BY <1>1, <1>2, RestTypes, RestKeeps
<1> DEFINE q == Peer(s)
           b == sealed[q][Len(got[q]) + 1].body
<1>4. got' = [got EXCEPT ![q] = Append(got[q], b)] /\ b \in Bodies
  BY RecvFacts
<1>5. q \in Sides /\ q # s /\ Peer(q) = s /\ \A u \in Sides : Peer(u) = q => u = s
  BY TwoSides DEF Sides, Peer
<1>6. openCount \in [Sides -> Nat] /\ got \in [Sides -> Seq(Bodies)] /\ TransportTypeOK
  BY DEF TransportInv, TransportTypeOK
<1> HIDE DEF q, b
<1>7. got' \in [Sides -> Seq(Bodies)] /\ openCount' \in [Sides -> Nat]
  <2>1. Append(got[q], b) \in Seq(Bodies)
    BY <1>4, <1>5, <1>6
  <2>2. got' \in [Sides -> Seq(Bodies)]
    BY <1>4, <1>6, <2>1
  <2>3. openCount' \in [Sides -> Nat]
    <3>1. openCount[s] + 1 \in Nat
      BY <1>6
    <3> QED BY <1>1, <1>6, <3>1
  <2> QED BY <2>2, <2>3
<1>8. TransportTypeOK'
  BY <1>1, <1>3, <1>6, <1>7 DEF TransportTypeOK
<1>9. KeysAreOwn' /\ SealedInOrder'
  BY <1>1 DEF TransportInv, KeysAreOwn, SealedInOrder, Label
<1>10. WireIsSealed'
  <2> SUFFICES ASSUME NEW u \in Sides, NEW i \in DOMAIN wire'[u],
                      wire'[u][i].kind = "frame" /\ wire'[u][i].intact
               PROVE  /\ wire'[u][i].nonce + 1 \in DOMAIN sealed[u]
                      /\ wire'[u][i].body = sealed[u][wire'[u][i].nonce + 1].body
    BY <1>1 DEF WireIsSealed
  <2>1. PICK j \in DOMAIN wire[u] : wire[u][j] = wire'[u][i]
    BY <1>3 DEF WireKept
  <2> QED BY <2>1 DEF TransportInv, WireIsSealed
<1>11. CountsWhatItOpened'
  <2> SUFFICES ASSUME NEW u \in Sides PROVE openCount'[u] = Len(got'[Peer(u)])
    BY DEF CountsWhatItOpened, Peer
  <2>1. openCount[u] = Len(got[Peer(u)]) /\ Peer(u) \in Sides
    BY TwoSides DEF TransportInv, CountsWhatItOpened
  <2>2. CASE u = s
    <3>1. Peer(u) = q
      BY <2>2 DEF q
    <3>2. got'[q] = Append(got[q], b) /\ Len(Append(got[q], b)) = Len(got[q]) + 1
      BY <1>4, <1>5, <1>6
    <3> QED BY <1>1, <1>6, <2>1, <2>2, <3>1, <3>2
  <2>3. CASE u # s
    <3>1. Peer(u) # q
      BY <1>5, <2>3
    <3>2. got'[Peer(u)] = got[Peer(u)] /\ openCount'[u] = openCount[u]
      BY <1>1, <1>4, <1>6, <2>1, <2>3, <3>1
    <3> QED BY <2>1, <3>2
  <2> QED BY <2>2, <2>3
<1> QED BY <1>8, <1>9, <1>10, <1>11 DEF TransportInv
-----------------------------------------------------------------------------
LEMMA InitInv == TransportInit => TransportInv
<1> SUFFICES ASSUME TransportInit PROVE TransportInv
  OBVIOUS
<1>1. TransportTypeOK
  BY TypeInit
<1>2. /\ phase = [s \in Sides |-> IF s = "initiator" THEN "start" ELSE "header"]
      /\ wire = [s \in Sides |-> <<>>] /\ sealed = [s \in Sides |-> <<>>]
      /\ got = [s \in Sides |-> <<>>]
      /\ sealCount = [s \in Sides |-> 0] /\ openCount = [s \in Sides |-> 0]
  BY DEF TransportInit
<1>3. KeysAreOwn
  BY <1>2 DEF KeysAreOwn
<1>4. SealedInOrder /\ WireIsSealed
  BY <1>2 DEF SealedInOrder, WireIsSealed
<1>5. CountsWhatItOpened
  BY <1>2, TwoSides DEF CountsWhatItOpened
<1> QED BY <1>1, <1>3, <1>4, <1>5 DEF TransportInv

LEMMA NextInv == TransportInv /\ [TransportNext]_transportVars => TransportInv'
<1> SUFFICES ASSUME TransportInv, [TransportNext]_transportVars PROVE TransportInv'
  OBVIOUS
<1>1. CASE Greet
  BY <1>1, GreetKeeps
<1>2. ASSUME NEW s \in Sides, ReadHeader(s) \/ ReadKey(s) \/ ReadCipherText(s)
      PROVE  TransportInv'
  BY <1>2, ReadHeaderKeeps, ReadKeyKeeps, ReadCipherTextKeeps
<1>3. ASSUME NEW s \in Sides,
             Malformed(s) \/ TimeOut(s) \/ EndOfStream(s) \/ Refuse(s) \/ Quit(s)
      PROVE  TransportInv'
  BY <1>3, EndsKeep
<1>4. ASSUME NEW s \in Sides, NEW b \in Bodies, Send(s, b)
      PROVE  TransportInv'
  BY <1>4, SendKeeps
<1>5. ASSUME NEW s \in Sides, Recv(s) \/ Alter(s)
      PROVE  TransportInv'
  BY <1>5, RecvKeeps, AlterKeeps
<1>6. CASE Break
  BY <1>6, BreakKeeps
<1>7. CASE UNCHANGED transportVars
  BY <1>7 DEF transportVars, ends, keys, counters, history, TransportInv, TransportTypeOK, KeysAreOwn,
              SealedInOrder, WireIsSealed, CountsWhatItOpened, Label
<1> QED BY <1>1, <1>2, <1>3, <1>4, <1>5, <1>6, <1>7 DEF TransportNext

\* The invariant of a connection: the sealed frames of each side are numbered
\* from zero under the key of its own direction, every intact frame on its way
\* is one of them, and the reader's counter is the number of frames it opened.
THEOREM TransportInvariant == TransportSpec => []TransportInv
<1>1. TransportInit => TransportInv
  BY InitInv
<1>2. TransportInv /\ [TransportNext]_transportVars => TransportInv'
  BY NextInv
<1> QED BY <1>1, <1>2, PTL DEF TransportSpec

\* SecureWriter never seals two frames with one key and one nonce, and the two
\* directions of a connection never share a key, whatever the network does to
\* the handshake.
THEOREM NoncesAreFresh == TransportSpec => []NonceUsedOnce
<1>1. TransportInv => NonceUsedOnce
  <2> SUFFICES ASSUME TransportInv, NEW s \in Sides, NEW u \in Sides,
                      NEW i \in DOMAIN sealed[s], NEW j \in DOMAIN sealed[u],
                      sealed[s][i].key = sealed[u][j].key,
                      sealed[s][i].nonce = sealed[u][j].nonce
               PROVE  s = u /\ i = j
    BY DEF NonceUsedOnce
  <2>1. sealed[s] \in Seq(Frames) /\ sealed[u] \in Seq(Frames)
    BY DEF TransportInv, TransportTypeOK
  <2>2. i \in Nat /\ j \in Nat /\ sealed[s] # <<>> /\ sealed[u] # <<>>
    BY <2>1
  <2>3. /\ sealed[s][i].nonce = i - 1 /\ sealed[s][i].key = sendKey[s]
        /\ sealed[u][j].nonce = j - 1 /\ sealed[u][j].key = sendKey[u]
    BY DEF TransportInv, SealedInOrder
  <2>4. sendKey[s][2] = Label(s) /\ sendKey[u][2] = Label(u)
    BY <2>2 DEF TransportInv, KeysAreOwn
  <2>5. Label(s) = Label(u)
    BY <2>3, <2>4
  <2>6. s = u
    BY <2>5 DEF Label, Sides
  <2>7. i - 1 = j - 1
    BY <2>3
  <2>8. i = j
    BY <2>2, <2>7
  <2> QED BY <2>6, <2>8
<1> QED BY <1>1, TransportInvariant, PTL
-----------------------------------------------------------------------------
Sent == [s \in Sides |-> BodiesOf(sealed[s])]

\* A step that neither seals nor opens a frame stutters in the abstraction.
LEMMA QuietStutters ==
    ASSUME UNCHANGED <<sealed, got>>
    PROVE  UNCHANGED Channel!vars
  BY DEF Channel!vars, BodiesOf

LEMMA SendImplements ==
    ASSUME TransportInv, NEW s \in Sides, NEW b \in Bodies, Send(s, b)
    PROVE  Channel!Send(s, b)
<1> DEFINE f == Frame(sendKey[s], sealCount[s], b)
<1>1. /\ f \in Frames /\ f.body = b /\ sealed[s] \in Seq(Frames)
      /\ sealed' = [sealed EXCEPT ![s] = Append(sealed[s], f)]
      /\ sealed \in [Sides -> Seq(Frames)]
  BY SendFacts DEF TransportInv, TransportTypeOK
<1> HIDE DEF f
<1>2. BodiesOf(Append(sealed[s], f)) = Append(BodiesOf(sealed[s]), b)
  <2>1. DOMAIN Append(sealed[s], f) = 1..(Len(sealed[s]) + 1)
    BY <1>1
  <2>2. BodiesOf(sealed[s]) \in Seq(Bodies) /\ Len(BodiesOf(sealed[s])) = Len(sealed[s])
    <3>1. ASSUME NEW i \in 1..Len(sealed[s]) PROVE sealed[s][i].body \in Bodies
      <4>1. sealed[s][i] \in Frames
        BY <1>1
      <4> QED BY <4>1 DEF Frames
    <3>2. BodiesOf(sealed[s]) = [i \in 1..Len(sealed[s]) |-> sealed[s][i].body]
      BY <1>1 DEF BodiesOf
    <3> QED BY <1>1, <3>1, <3>2
  <2>3. Append(BodiesOf(sealed[s]), b) \in Seq(Bodies)
        /\ Len(Append(BodiesOf(sealed[s]), b)) = Len(sealed[s]) + 1
    BY <2>2
  <2>4. ASSUME NEW i \in 1..(Len(sealed[s]) + 1)
        PROVE  Append(sealed[s], f)[i].body = Append(BodiesOf(sealed[s]), b)[i]
    <3>1. CASE i <= Len(sealed[s])
      <4>1. Append(sealed[s], f)[i] = sealed[s][i]
        BY <1>1, <3>1
      <4>2. Append(BodiesOf(sealed[s]), b)[i] = BodiesOf(sealed[s])[i]
        BY <2>2, <3>1
      <4>3. BodiesOf(sealed[s])[i] = sealed[s][i].body
        BY <1>1, <3>1 DEF BodiesOf
      <4> QED BY <4>1, <4>2, <4>3
    <3>2. CASE i = Len(sealed[s]) + 1
      <4>1. Append(sealed[s], f)[i] = f
        BY <1>1, <3>2
      <4>2. Append(BodiesOf(sealed[s]), b)[i] = b
        BY <2>2, <3>2
      <4> QED BY <1>1, <4>1, <4>2
    <3>3. Len(sealed[s]) \in Nat
      BY <1>1
    <3>4. i <= Len(sealed[s]) \/ i = Len(sealed[s]) + 1
      BY <3>3
    <3> QED BY <3>1, <3>2, <3>4
  <2>5. BodiesOf(Append(sealed[s], f))
          = [i \in 1..(Len(sealed[s]) + 1) |-> Append(BodiesOf(sealed[s]), b)[i]]
    BY <2>1, <2>4 DEF BodiesOf
  <2> QED BY <2>3, <2>5
<1>3. Sent' = [Sent EXCEPT ![s] = Append(Sent[s], b)]
  <2>1. ASSUME NEW u \in Sides
        PROVE  BodiesOf(sealed'[u]) = IF u = s THEN Append(Sent[s], b) ELSE Sent[u]
    BY <1>1, <1>2 DEF Sent
  <2> QED BY <2>1 DEF Sent
<1> QED BY <1>3 DEF Channel!Send, Sent, Send

LEMMA RecvImplements ==
    ASSUME TransportInv, NEW s \in Sides, Recv(s)
    PROVE  Channel!Deliver(Peer(s))
<1> DEFINE q == Peer(s)
           n == Len(got[q]) + 1
<1>1. /\ n \in DOMAIN sealed[q]
      /\ got' = [got EXCEPT ![q] = Append(got[q], sealed[q][n].body)]
  BY RecvFacts
<1>2. q \in Sides /\ sealed[q] \in Seq(Frames) /\ got[q] \in Seq(Bodies)
  BY TwoSides DEF TransportInv, TransportTypeOK
<1>3. Sent[q] = [i \in 1..Len(sealed[q]) |-> sealed[q][i].body]
  BY <1>2 DEF Sent, BodiesOf
<1>4. Len(got[q]) < Len(Sent[q]) /\ Sent[q][n] = sealed[q][n].body
  BY <1>1, <1>2, <1>3
<1>5. UNCHANGED Sent
  BY DEF Recv, Sent, BodiesOf
<1> QED BY <1>1, <1>4, <1>5 DEF Channel!Deliver, Sent

LEMMA NextImplements == TransportInv /\ [TransportNext]_transportVars => [Channel!Next]_(Channel!vars)
<1> SUFFICES ASSUME TransportInv, [TransportNext]_transportVars PROVE Channel!Next \/ UNCHANGED Channel!vars
  OBVIOUS
<1>1. CASE UNCHANGED <<sealed, got>>
  BY <1>1, QuietStutters
<1>2. ASSUME NEW s \in Sides, NEW b \in Bodies, Send(s, b)
      PROVE  Channel!Next
  BY <1>2, SendImplements DEF Channel!Next
<1>3. ASSUME NEW s \in Sides, Recv(s)
      PROVE  Channel!Next
  BY <1>3, RecvImplements, TwoSides DEF Channel!Next
<1>4. \/ UNCHANGED <<sealed, got>>
      \/ \E s \in Sides : Recv(s) \/ \E b \in Bodies : Send(s, b)
  BY DEF TransportNext, transportVars, history, Greet, ReadHeader, ReadKey, ReadCipherText, Malformed, TimeOut,
         EndOfStream, Refuse, Quit, Alter, Break
<1> QED BY <1>1, <1>2, <1>3, <1>4

\* The encrypted connection implements the abstract channel: each side opens
\* a prefix of what the other one sealed, unaltered and in order, however the
\* network alters, truncates or breaks what is on its way.
THEOREM RefinesChannel == TransportSpec => ImplementsChannel
<1>1. TransportInit => Channel!Init
  <2> SUFFICES ASSUME TransportInit PROVE Channel!Init
    OBVIOUS
  <2>1. BodiesOf(<<>>) = <<>>
    BY DEF BodiesOf
  <2> QED BY <2>1 DEF TransportInit, Channel!Init
<1>2. TransportInv /\ [TransportNext]_transportVars => [Channel!Next]_(Channel!vars)
  BY NextImplements
<1> QED BY <1>1, <1>2, TransportInvariant, PTL DEF TransportSpec, ImplementsChannel, Channel!Spec
-----------------------------------------------------------------------------
(***************************************************************************)
(* What the two sides know of each other, and the order of the frames.     *)
(***************************************************************************)
Secrets == {"shared", "unknown", "rejected"}

\* Both keys of a side come from one secret.
KeysArePaired ==
    \A s \in Sides :
        \/ sendKey[s] = NoKey /\ recvKey[s] = NoKey
        \/ \E x \in Secrets : sendKey[s] = Key(x, Label(s)) /\ recvKey[s] = Key(x, Label(Peer(s)))

\* A header is its sender's or was altered, and a frame on the wire carries the
\* key of its sender, which has sealed it.
WireIsOwn ==
    \A s \in Sides : \A i \in DOMAIN wire[s] :
        /\ wire[s][i].kind = "header" =>
              \/ s \in rewritten
              \/ wire[s][i].version = version[s] /\ wire[s][i].network = network[s]
        /\ wire[s][i].kind = "frame" => wire[s][i].key = sendKey[s] /\ sealed[s] # <<>>

Met(s) == version[s] = version[Peer(s)] /\ network[s] = network[Peer(s)]

\* What a side that has accepted a header knows: the two agree, or the header
\* it has read was altered.
Checked(s) == Met(s) \/ Peer(s) \in rewritten

HaveMet ==
    \A s \in Sides : phase[s] \in {"ek", "ct", "open"} \/ sendKey[s] # NoKey => Checked(s)

\* Frames are opened after the handshake, at most those that were sealed, and
\* only under the key that sealed them.
OpenedUnderKey ==
    \A s \in Sides :
        /\ phase[s] \in {"start"} \cup Handshaking => got[Peer(s)] = <<>>
        /\ Len(got[s]) <= Len(sealed[s])
        /\ got[s] # <<>> => recvKey[Peer(s)] = sendKey[s]

\* The frames of w carry the nonces from n to m - 1, behind whatever is left
\* of the handshake.
Window(w, n, m) ==
    \E a \in 0..Len(w) :
        /\ n + (Len(w) - a) = m
        /\ \A i \in DOMAIN w :
              /\ w[i].kind = "frame" <=> i > a
              /\ i > a => w[i].nonce = n + (i - a - 1)

\* What a reader that goes on has not opened yet is on its way, in order; only
\* a broken connection loses the end of it.
WireInOrder ==
    \A s \in Sides : phase[Peer(s)] \notin Ended =>
        \E m \in Nat : Window(wire[s], openCount[Peer(s)], m) /\ (broken \/ m = sealCount[s])

\* Without alterations everything on the wire is intact and both sides get the
\* shared secret.
Unaltered ==
    altered = 0 => \A s \in Sides :
        /\ \A i \in DOMAIN wire[s] :
              wire[s][i].intact /\ (wire[s][i].kind = "ct" => wire[s][i].secret = "shared")
        /\ phase[s] = "open" => sendKey[s] = Key("shared", Label(s))
                                /\ recvKey[s] = Key("shared", Label(Peer(s)))
        /\ sealed[s] # <<>> => sendKey[s] = Key("shared", Label(s))

AgreeInv ==
    /\ altered \in Nat
    /\ KeysArePaired
    /\ WireIsOwn
    /\ HaveMet
    /\ OpenedUnderKey
    /\ WireInOrder
    /\ Unaltered
    /\ RefusesOnlyDamage

-----------------------------------------------------------------------------
LEMMA WindowTail ==
    ASSUME NEW T, NEW w \in Seq(T), w # <<>>, NEW n \in Nat, NEW m \in Nat, Window(w, n, m)
    PROVE  /\ Head(w).kind # "frame" => Window(Tail(w), n, m)
           /\ Head(w).kind = "frame" => Head(w).nonce = n /\ Window(Tail(w), n + 1, m)
<1>1. PICK a \in 0..Len(w) :
         /\ n + (Len(w) - a) = m
         /\ \A i \in DOMAIN w : /\ w[i].kind = "frame" <=> i > a
                                /\ i > a => w[i].nonce = n + (i - a - 1)
  BY DEF Window
<1>2. /\ Len(w) \in Nat /\ Len(w) > 0 /\ DOMAIN w = 1..Len(w) /\ Head(w) = w[1]
      /\ Tail(w) \in Seq(T) /\ Len(Tail(w)) = Len(w) - 1 /\ DOMAIN Tail(w) = 1..(Len(w) - 1)
  OBVIOUS
<1>3. \A i \in 1..(Len(w) - 1) : Tail(w)[i] = w[i + 1] /\ i + 1 \in 1..Len(w)
  BY <1>2
<1>4. ASSUME Head(w).kind # "frame" PROVE Window(Tail(w), n, m)
  <2>1. a \in Nat /\ a >= 1 /\ a - 1 \in 0..Len(Tail(w))
    BY <1>1, <1>2, <1>4
  <2>2. n + (Len(Tail(w)) - (a - 1)) = m
    BY <1>1, <1>2, <2>1
  <2>3. ASSUME NEW i \in DOMAIN Tail(w)
        PROVE  /\ Tail(w)[i].kind = "frame" <=> i > a - 1
               /\ i > a - 1 => Tail(w)[i].nonce = n + (i - (a - 1) - 1)
    <3>1. i \in 1..(Len(w) - 1) /\ Tail(w)[i] = w[i + 1] /\ i + 1 \in DOMAIN w
      BY <1>2, <1>3, <2>3
    <3>2. /\ w[i + 1].kind = "frame" <=> i + 1 > a
          /\ i + 1 > a => w[i + 1].nonce = n + ((i + 1) - a - 1)
      BY <1>1, <3>1
    <3>3. i \in Int /\ a \in Int /\ n \in Int
      BY <1>2, <2>1, <3>1
    <3>4. (i + 1 > a <=> i > a - 1) /\ n + ((i + 1) - a - 1) = n + (i - (a - 1) - 1)
      BY <3>3
    <3> QED BY <3>1, <3>2, <3>4
  <2> QED BY <2>1, <2>2, <2>3 DEF Window
<1>5. ASSUME Head(w).kind = "frame" PROVE Head(w).nonce = n /\ Window(Tail(w), n + 1, m)
  <2>1. a = 0
    BY <1>1, <1>2, <1>5
  <2>2. Head(w).nonce = n
    BY <1>1, <1>2, <2>1
  <2>3. 0 \in 0..Len(Tail(w)) /\ n + 1 + (Len(Tail(w)) - 0) = m
    <3>1. PICK l, k : l = Len(w) /\ k = Len(Tail(w))
      OBVIOUS
    <3>2. l \in Nat /\ l > 0 /\ k = l - 1
      BY ONLY <1>2, <3>1
    <3>3. n + (l - 0) = m
      BY <1>1, <2>1, <3>1
    <3>4. k \in Nat /\ n + 1 + k = m
      BY <3>2, <3>3
    <3> QED BY <3>1, <3>4
  <2>4. ASSUME NEW i \in DOMAIN Tail(w)
        PROVE  /\ Tail(w)[i].kind = "frame" <=> i > 0
               /\ i > 0 => Tail(w)[i].nonce = n + 1 + (i - 0 - 1)
    <3>1. i \in 1..(Len(w) - 1) /\ Tail(w)[i] = w[i + 1] /\ i + 1 \in DOMAIN w
      BY <1>2, <1>3, <2>4
    <3>2. /\ w[i + 1].kind = "frame" <=> i + 1 > 0
          /\ i + 1 > 0 => w[i + 1].nonce = n + ((i + 1) - 0 - 1)
      BY <1>1, <2>1, <3>1
    <3> QED BY <3>1, <3>2
  <2> QED BY <2>2, <2>3, <2>4 DEF Window
<1> QED BY <1>4, <1>5

LEMMA WindowNoFrames ==
    ASSUME NEW T, NEW w \in Seq(T), NEW n \in Nat, \A i \in DOMAIN w : w[i].kind # "frame"
    PROVE  Window(w, n, n)
<1>1. Len(w) \in 0..Len(w) /\ n + (Len(w) - Len(w)) = n
  OBVIOUS
<1>2. \A i \in DOMAIN w : ~(i > Len(w))
  OBVIOUS
<1> QED BY <1>1, <1>2 DEF Window

LEMMA WindowAppend ==
    ASSUME NEW T, NEW w \in Seq(T), NEW n \in Nat, NEW m \in Nat, Window(w, n, m),
           NEW f \in T, f.kind = "frame", f.nonce = m
    PROVE  Window(Append(w, f), n, m + 1)
<1>1. PICK a \in 0..Len(w) :
         /\ n + (Len(w) - a) = m
         /\ \A i \in DOMAIN w : /\ w[i].kind = "frame" <=> i > a
                                /\ i > a => w[i].nonce = n + (i - a - 1)
  BY DEF Window
<1> DEFINE v == Append(w, f)
<1>2. /\ Len(w) \in Nat /\ DOMAIN w = 1..Len(w) /\ Len(v) = Len(w) + 1
      /\ DOMAIN v = 1..(Len(w) + 1) /\ v[Len(w) + 1] = f
  OBVIOUS
<1>3. \A i \in 1..Len(w) : v[i] = w[i]
  OBVIOUS
<1> HIDE DEF v
<1>4. a \in 0..Len(v) /\ n + (Len(v) - a) = m + 1
  BY <1>1, <1>2
<1>5. ASSUME NEW i \in DOMAIN v
      PROVE  /\ v[i].kind = "frame" <=> i > a
             /\ i > a => v[i].nonce = n + (i - a - 1)
  <2>1. CASE i \in 1..Len(w)
    BY <1>1, <1>2, <1>3, <2>1
  <2>2. CASE i = Len(w) + 1
    <3>1. a \in Int /\ Len(w) \in Int /\ n \in Int /\ a <= Len(w) /\ n + (Len(w) - a) = m
      BY <1>1, <1>2
    <3>2. i > a /\ n + (i - a - 1) = m
      BY <2>2, <3>1
    <3> QED BY <1>2, <2>2, <3>2
  <2>3. i \in 1..Len(w) \/ i = Len(w) + 1
    BY <1>2
  <2> QED BY <2>1, <2>2, <2>3
<1>6. Window(v, n, m + 1)
  BY <1>4, <1>5 DEF Window
<1> QED BY <1>6 DEF v

\* A window survives the loss of its end, and changes that keep kinds and
\* nonces.
LEMMA WindowPart ==
    ASSUME NEW T, NEW w \in Seq(T), NEW v \in Seq(T), NEW n \in Nat, NEW m \in Nat,
           Window(w, n, m), Len(v) <= Len(w),
           \A i \in DOMAIN v : v[i].kind = w[i].kind
                               /\ (v[i].kind = "frame" => v[i].nonce = w[i].nonce)
    PROVE  \E k \in Nat : Window(v, n, k) /\ (Len(v) = Len(w) => k = m)
<1>1. PICK a \in 0..Len(w) :
         /\ n + (Len(w) - a) = m
         /\ \A i \in DOMAIN w : /\ w[i].kind = "frame" <=> i > a
                                /\ i > a => w[i].nonce = n + (i - a - 1)
  BY DEF Window
<1>2. Len(w) \in Nat /\ Len(v) \in Nat /\ DOMAIN w = 1..Len(w) /\ DOMAIN v = 1..Len(v)
  OBVIOUS
<1>3. ASSUME NEW i \in DOMAIN v
      PROVE  /\ v[i].kind = "frame" <=> i > a
             /\ i > a => v[i].nonce = n + (i - a - 1)
  <2>1. i \in DOMAIN w
    BY <1>2
  <2> QED BY <1>1, <1>3, <2>1
<1>4. CASE a <= Len(v)
  <2>1. a \in 0..Len(v) /\ n + (Len(v) - a) \in Nat
    BY <1>2, <1>4
  <2>2. Window(v, n, n + (Len(v) - a))
    BY <1>3, <2>1 DEF Window
  <2> QED BY <1>1, <2>1, <2>2
<1>5. CASE a > Len(v)
  <2>1. \A i \in DOMAIN v : v[i].kind # "frame"
    BY <1>2, <1>3, <1>5
  <2>2. Window(v, n, n)
    BY <2>1, WindowNoFrames
  <2>3. a \in Int /\ a <= Len(w) /\ Len(v) \in Int /\ Len(w) \in Int
    BY <1>2
  <2>4. Len(v) # Len(w)
    BY <1>5, <2>3
  <2> QED BY <2>2, <2>4
<1>6. a \in Int /\ Len(v) \in Int
  BY <1>2
<1> QED BY <1>4, <1>5, <1>6
-----------------------------------------------------------------------------
LEMMA ConnTypes ==
    ASSUME TransportInv
    PROVE  /\ wire \in [Sides -> Seq(Items)]
           /\ \A u \in Sides : /\ wire[u] \in Seq(Items) /\ sealed[u] \in Seq(Frames)
                               /\ got[u] \in Seq(Bodies)
                               /\ sealCount[u] \in Nat /\ openCount[u] \in Nat
                               /\ openCount[u] = Len(got[Peer(u)])
                               /\ sealCount[u] = Len(sealed[u])
  BY DEF TransportInv, TransportTypeOK, CountsWhatItOpened, SealedInOrder

\* What a step in which nothing is sealed or opened does to keys and phases.
KeysFair ==
    \A u \in Sides :
        \/ /\ sendKey'[u] = sendKey[u] /\ recvKey'[u] = recvKey[u]
           /\ phase'[u] = "open" => phase[u] = "open"
           /\ phase'[u] \in {"ek", "ct"} => phase[u] \in {"ek", "ct"} \/ Checked(u)
           /\ phase'[u] \in {"start"} \cup Handshaking => phase[u] \in {"start"} \cup Handshaking
        \/ /\ phase[u] \in {"ek", "ct"} /\ phase'[u] = "open"
           /\ \E x \in Secrets : /\ sendKey'[u] = Key(x, Label(u))
                                 /\ recvKey'[u] = Key(x, Label(Peer(u)))
                                 /\ altered = 0 => x = "shared"

\* What it may leave on the wire.
FairItem(u, y) ==
    /\ y.kind = "header" =>
          u \in rewritten' \/ (y.version = version[u] /\ y.network = network[u])
    /\ y.kind = "frame" => \E j \in DOMAIN wire[u] : wire[u][j].kind = "frame" /\ wire[u][j].key = y.key
    /\ altered' = 0 => y.intact /\ (y.kind = "ct" => y.secret = "shared")

WireFair == \A u \in Sides : \A i \in DOMAIN wire'[u] : FairItem(u, wire'[u][i])

\* The network's damage is counted, and a side refuses for a reason.
CountFair ==
    /\ altered' \in Nat /\ (altered' = 0 => altered = 0)
    /\ \A u \in Sides : phase'[u] = "refused" /\ altered' = 0 =>
          \/ phase[u] = "refused"
          \/ \E i \in DOMAIN sealed[Peer(u)] : SIZE[sealed[Peer(u)][i].body] > MAX_FRAME

LEMMA QuietAgree ==
    ASSUME TransportInv, AgreeInv, UNCHANGED <<ends, counters>>, HistoryKept,
           KeysFair, WireFair, CountFair, WireInOrder'
    PROVE  AgreeInv'
<1> USE DEF ends, counters, HistoryKept
<1>1. /\ UNCHANGED <<version, network, sealCount, openCount, sealed, got>>
      /\ \A u \in Sides : Peer(u) \in Sides /\ Peer(Peer(u)) = u
  BY TwoSides
<1>2. \A u \in Sides : phase[u] \in {"ek", "ct"} => sealed[u] = <<>> /\ got[u] = <<>> /\ got[Peer(u)] = <<>>
  <2> SUFFICES ASSUME NEW u \in Sides, phase[u] \in {"ek", "ct"}
               PROVE  sealed[u] = <<>> /\ got[u] = <<>> /\ got[Peer(u)] = <<>>
    OBVIOUS
  <2>1. phase[u] \in {"start"} \cup Handshaking
    BY DEF Handshaking
  <2>2. sealed[u] = <<>> /\ got[Peer(u)] = <<>>
    BY <2>1 DEF TransportInv, KeysAreOwn, AgreeInv, OpenedUnderKey
  <2>3. got[u] \in Seq(Bodies) /\ Len(got[u]) <= Len(sealed[u])
    BY ConnTypes DEF AgreeInv, OpenedUnderKey
  <2> QED BY <2>2, <2>3
<1>3. KeysArePaired'
  <2> SUFFICES ASSUME NEW u \in Sides
               PROVE  \/ sendKey'[u] = NoKey /\ recvKey'[u] = NoKey
                      \/ \E x \in Secrets : /\ sendKey'[u] = Key(x, Label(u))
                                            /\ recvKey'[u] = Key(x, Label(Peer(u)))
    BY DEF KeysArePaired, NoKey, Key, Label, Peer
  <2>1. \/ sendKey[u] = NoKey /\ recvKey[u] = NoKey
        \/ \E x \in Secrets : sendKey[u] = Key(x, Label(u)) /\ recvKey[u] = Key(x, Label(Peer(u)))
    BY DEF AgreeInv, KeysArePaired
  <2>2. CASE sendKey'[u] = sendKey[u] /\ recvKey'[u] = recvKey[u]
    BY <2>1, <2>2
  <2> QED BY <2>2 DEF KeysFair
<1>4. WireIsOwn'
  <2> SUFFICES ASSUME NEW u \in Sides, NEW i \in DOMAIN wire'[u]
               PROVE  /\ wire'[u][i].kind = "header" =>
                            \/ u \in rewritten'
                            \/ wire'[u][i].version = version[u] /\ wire'[u][i].network = network[u]
                      /\ wire'[u][i].kind = "frame" =>
                            wire'[u][i].key = sendKey'[u] /\ sealed[u] # <<>>
    BY <1>1 DEF WireIsOwn
  <2>1. FairItem(u, wire'[u][i])
    BY DEF WireFair
  <2>2. ASSUME wire'[u][i].kind = "frame"
        PROVE  wire'[u][i].key = sendKey'[u] /\ sealed[u] # <<>>
    <3>1. PICK j \in DOMAIN wire[u] : wire[u][j].kind = "frame" /\ wire[u][j].key = wire'[u][i].key
      BY <2>1, <2>2 DEF FairItem
    <3>2. wire[u][j].key = sendKey[u] /\ sealed[u] # <<>>
      BY <3>1 DEF AgreeInv, WireIsOwn
    <3>3. sendKey'[u] = sendKey[u]
      BY <1>2, <3>2 DEF KeysFair
    <3> QED BY <3>1, <3>2, <3>3
  <2> QED BY <2>1, <2>2 DEF FairItem
<1>5. HaveMet'
  <2> SUFFICES ASSUME NEW u \in Sides, phase'[u] \in {"ek", "ct", "open"} \/ sendKey'[u] # NoKey
               PROVE  Checked(u)'
    BY <1>1 DEF HaveMet
  <2>1. phase[u] \in {"ek", "ct", "open"} \/ sendKey[u] # NoKey \/ Checked(u)
    BY DEF KeysFair
  <2>2. Checked(u)
    BY <2>1 DEF AgreeInv, HaveMet
  <2> QED BY <1>1, <2>2 DEF Checked, Met, Peer
<1>6. OpenedUnderKey'
  <2> SUFFICES ASSUME NEW u \in Sides
               PROVE  /\ phase'[u] \in {"start"} \cup Handshaking => got[Peer(u)] = <<>>
                      /\ Len(got[u]) <= Len(sealed[u])
                      /\ got[u] # <<>> => recvKey'[Peer(u)] = sendKey'[u]
    BY <1>1 DEF OpenedUnderKey, Peer
  <2>1. /\ phase[u] \in {"start"} \cup Handshaking => got[Peer(u)] = <<>>
        /\ Len(got[u]) <= Len(sealed[u])
        /\ got[u] # <<>> => recvKey[Peer(u)] = sendKey[u]
    BY DEF AgreeInv, OpenedUnderKey
  <2>2. phase'[u] \in {"start"} \cup Handshaking => phase[u] \in {"start"} \cup Handshaking
    BY DEF KeysFair, Handshaking
  <2>3. ASSUME got[u] # <<>> PROVE recvKey'[Peer(u)] = recvKey[Peer(u)] /\ sendKey'[u] = sendKey[u]
    BY <1>1, <1>2, <2>3 DEF KeysFair
  <2> QED BY <2>1, <2>2, <2>3
<1>7. Unaltered'
  <2> SUFFICES ASSUME altered' = 0, NEW u \in Sides
               PROVE  /\ \A i \in DOMAIN wire'[u] :
                            wire'[u][i].intact /\ (wire'[u][i].kind = "ct" => wire'[u][i].secret = "shared")
                      /\ phase'[u] = "open" => sendKey'[u] = Key("shared", Label(u))
                                               /\ recvKey'[u] = Key("shared", Label(Peer(u)))
                      /\ sealed[u] # <<>> => sendKey'[u] = Key("shared", Label(u))
    BY <1>1 DEF Unaltered, Key, Label, Peer
  <2>1. altered = 0
    BY DEF CountFair
  <2>2. /\ phase[u] = "open" => sendKey[u] = Key("shared", Label(u))
                                /\ recvKey[u] = Key("shared", Label(Peer(u)))
        /\ sealed[u] # <<>> => sendKey[u] = Key("shared", Label(u))
    BY <2>1 DEF AgreeInv, Unaltered
  <2>3. \A i \in DOMAIN wire'[u] :
            wire'[u][i].intact /\ (wire'[u][i].kind = "ct" => wire'[u][i].secret = "shared")
    BY DEF WireFair, FairItem
  <2>4. \/ sendKey'[u] = sendKey[u] /\ recvKey'[u] = recvKey[u] /\ (phase'[u] = "open" => phase[u] = "open")
        \/ sendKey'[u] = Key("shared", Label(u)) /\ recvKey'[u] = Key("shared", Label(Peer(u)))
    BY <2>1 DEF KeysFair
  <2> QED BY <2>2, <2>3, <2>4
<1>8. RefusesOnlyDamage'
  <2> SUFFICES ASSUME NEW u \in Sides, phase'[u] = "refused", ~(altered' > 0)
               PROVE  \E i \in DOMAIN sealed[Peer(u)] : SIZE[sealed[Peer(u)][i].body] > MAX_FRAME
    BY <1>1 DEF RefusesOnlyDamage, Peer
  <2>1. altered' = 0 /\ altered = 0
    BY DEF CountFair
  <2>2. CASE phase[u] = "refused"
    BY <2>1, <2>2 DEF AgreeInv, RefusesOnlyDamage
  <2> QED BY <2>1, <2>2 DEF CountFair
<1> QED BY <1>3, <1>4, <1>5, <1>6, <1>7, <1>8 DEF AgreeInv, CountFair

\* Items that are on the wire already are fair.
LEMMA OldIsFair ==
    ASSUME TransportInv, AgreeInv, NEW u \in Sides, NEW i \in DOMAIN wire[u],
           altered' = 0 => altered = 0, HistoryKept
    PROVE  FairItem(u, wire[u][i])
<1>1. wire[u][i].kind = "header" =>
          u \in rewritten' \/ (wire[u][i].version = version[u] /\ wire[u][i].network = network[u])
  BY DEF AgreeInv, WireIsOwn, HistoryKept
<1>2. altered' = 0 => wire[u][i].intact /\ (wire[u][i].kind = "ct" => wire[u][i].secret = "shared")
  BY DEF AgreeInv, Unaltered
<1> QED BY <1>1, <1>2 DEF FairItem

\* A read leaves fair items, when what it answers with is fair.
LEMMA ReadIsFair ==
    ASSUME TransportInv, AgreeInv, NEW s \in Sides, NEW out \in Seq(Items),
           wire[Peer(s)] # <<>>, wire' = Rest(s, out), altered' = altered, HistoryKept,
           \A i \in DOMAIN out : FairItem(s, out[i])
    PROVE  WireFair
<1>1. /\ Peer(s) \in Sides /\ Peer(s) # s /\ Sides = {s, Peer(s)}
      /\ wire \in [Sides -> Seq(Items)]
      /\ wire[s] \in Seq(Items) /\ wire[Peer(s)] \in Seq(Items)
  BY TwoSides, ConnTypes DEF Sides, Peer
<1>2. wire'[s] = wire[s] \o out /\ wire'[Peer(s)] = Tail(wire[Peer(s)])
  BY <1>1, RestTypes
<1>3. ASSUME NEW i \in DOMAIN wire'[s] PROVE FairItem(s, wire'[s][i])
  <2>1. i \in 1..(Len(wire[s]) + Len(out))
    BY <1>1, <1>2, <1>3
  <2>2. CASE i <= Len(wire[s])
    <3>1. i \in DOMAIN wire[s] /\ wire'[s][i] = wire[s][i]
      BY <1>1, <1>2, <2>1, <2>2
    <3> QED BY <3>1, OldIsFair
  <2>3. CASE i > Len(wire[s])
    <3>1. i - Len(wire[s]) \in DOMAIN out /\ wire'[s][i] = out[i - Len(wire[s])]
      BY <1>1, <1>2, <2>1, <2>3
    <3> QED BY <3>1
  <2> QED BY <1>1, <2>1, <2>2, <2>3
<1>4. ASSUME NEW i \in DOMAIN wire'[Peer(s)] PROVE FairItem(Peer(s), wire'[Peer(s)][i])
  <2>1. i + 1 \in DOMAIN wire[Peer(s)] /\ wire[Peer(s)][i + 1] = wire'[Peer(s)][i]
    BY <1>1, <1>2, <1>4
  <2>2. FairItem(Peer(s), wire[Peer(s)][i + 1])
    BY <1>1, <2>1, OldIsFair
  <2> QED BY <2>1, <2>2
<1> QED BY <1>1, <1>3, <1>4 DEF WireFair

\* A read that opens nothing leaves the frames in order: only a side that has
\* not sealed yet answers.
LEMMA ReadInOrder ==
    ASSUME TransportInv, AgreeInv, NEW s \in Sides, NEW out \in Seq(Items),
           wire[Peer(s)] # <<>>, wire' = Rest(s, out),
           UNCHANGED <<counters, history, broken>>,
           phase[s] \notin Ended,
           Head(wire[Peer(s)]).kind # "frame" \/ phase'[s] \in Ended,
           phase'[Peer(s)] = phase[Peer(s)],
           out = <<>> \/ (sealed[s] = <<>> /\ \A i \in DOMAIN out : out[i].kind # "frame")
    PROVE  WireInOrder'
<1>1. /\ Peer(s) \in Sides /\ Peer(s) # s /\ Sides = {s, Peer(s)} /\ Peer(Peer(s)) = s
      /\ wire \in [Sides -> Seq(Items)]
      /\ wire[s] \in Seq(Items) /\ wire[Peer(s)] \in Seq(Items)
      /\ openCount[s] \in Nat /\ openCount[Peer(s)] \in Nat /\ sealCount[s] \in Nat
  BY TwoSides, ConnTypes DEF Sides, Peer
<1>2. wire'[s] = wire[s] \o out /\ wire'[Peer(s)] = Tail(wire[Peer(s)])
  BY <1>1, RestTypes
<1>3. UNCHANGED <<sealCount, openCount, broken, sealed, got>>
  BY DEF counters, history
<1>4. ASSUME phase'[s] \notin Ended
      PROVE  \E m \in Nat : Window(wire'[Peer(s)], openCount[s], m) /\ (broken \/ m = sealCount[Peer(s)])
  <2>1. PICK m \in Nat : Window(wire[Peer(s)], openCount[s], m) /\ (broken \/ m = sealCount[Peer(s)])
    BY <1>1 DEF AgreeInv, WireInOrder
  <2>2. Window(Tail(wire[Peer(s)]), openCount[s], m)
    BY <1>1, <1>4, <2>1, WindowTail
  <2> QED BY <1>2, <2>1, <2>2
<1>5. ASSUME phase'[Peer(s)] \notin Ended
      PROVE  \E m \in Nat : Window(wire'[s], openCount[Peer(s)], m) /\ (broken \/ m = sealCount[s])
  <2>1. CASE out = <<>>
    <3>1. wire'[s] = wire[s]
      BY <1>1, <1>2, <2>1
    <3> QED BY <1>1, <1>5, <3>1 DEF AgreeInv, WireInOrder
  <2>2. CASE sealed[s] = <<>> /\ \A i \in DOMAIN out : out[i].kind # "frame"
    <3>1. \A i \in DOMAIN wire[s] : wire[s][i].kind # "frame"
      BY <2>2 DEF AgreeInv, WireIsOwn
    <3>2. wire'[s] \in Seq(Items)
      BY <1>1, <1>2
    <3>3. ASSUME NEW i \in DOMAIN wire'[s] PROVE wire'[s][i].kind # "frame"
      <4>1. i \in 1..(Len(wire[s]) + Len(out))
        BY <1>1, <1>2, <3>3
      <4>2. CASE i <= Len(wire[s])
        BY <1>1, <1>2, <3>1, <4>1, <4>2
      <4>3. CASE i > Len(wire[s])
        <5>1. i - Len(wire[s]) \in DOMAIN out /\ wire'[s][i] = out[i - Len(wire[s])]
          BY <1>1, <1>2, <4>1, <4>3
        <5> QED BY <2>2, <5>1
      <4> QED BY <1>1, <4>1, <4>2, <4>3
    <3>4. Len(got[s]) <= Len(sealed[s]) /\ got[s] \in Seq(Bodies)
      BY ConnTypes DEF AgreeInv, OpenedUnderKey
    <3>5. openCount[Peer(s)] = 0 /\ sealCount[s] = 0
      BY <1>1, <2>2, <3>4, ConnTypes
    <3>6. Window(wire'[s], 0, 0)
      BY <3>2, <3>3, WindowNoFrames
    <3> QED BY <3>5, <3>6
  <2> QED BY <2>1, <2>2
<1> QED BY <1>1, <1>3, <1>4, <1>5 DEF WireInOrder
-----------------------------------------------------------------------------
\* A side that moves on without a key, reading an item or not.
LEMMA MoveAgrees ==
    ASSUME TransportInv, AgreeInv, NEW s \in Sides, NEW p \in Phases \ {"start", "open"},
           Goes(s, p), UNCHANGED <<ends, keys, counters, history, altered>>,
           p \in {"ek", "ct"} => Checked(s),
           p \in Handshaking => phase[s] \in {"start"} \cup Handshaking,
           p = "refused" /\ altered = 0 =>
               \E i \in DOMAIN sealed[Peer(s)] : SIZE[sealed[Peer(s)][i].body] > MAX_FRAME,
           WireFair, WireInOrder'
    PROVE  AgreeInv'
<1>1. /\ phase'[s] = p
      /\ \A u \in Sides \ {s} : phase'[u] = phase[u]
  BY GoesType DEF TransportInv, TransportTypeOK
<1>2. KeysFair
  <2> SUFFICES ASSUME NEW u \in Sides
               PROVE  /\ sendKey'[u] = sendKey[u] /\ recvKey'[u] = recvKey[u]
                      /\ phase'[u] = "open" => phase[u] = "open"
                      /\ phase'[u] \in {"ek", "ct"} => phase[u] \in {"ek", "ct"} \/ Checked(u)
                      /\ phase'[u] \in {"start"} \cup Handshaking => phase[u] \in {"start"} \cup Handshaking
    BY DEF KeysFair
  <2>1. CASE u = s
    BY <1>1, <2>1 DEF keys
  <2>2. CASE u # s
    BY <1>1, <2>2 DEF keys
  <2> QED BY <2>1, <2>2
<1>3. CountFair
  <2>1. altered \in Nat /\ altered' = altered
    BY DEF AgreeInv
  <2>2. ASSUME NEW u \in Sides, phase'[u] = "refused", altered' = 0
        PROVE  \/ phase[u] = "refused"
               \/ \E i \in DOMAIN sealed[Peer(u)] : SIZE[sealed[Peer(u)][i].body] > MAX_FRAME
    BY <1>1, <2>1, <2>2
  <2> QED BY <2>1, <2>2 DEF CountFair
<1>4. HistoryKept
  BY SameHistory DEF TransportInv
<1> QED BY <1>2, <1>3, <1>4, QuietAgree

\* The two steps that set the keys.
LEMMA SplitAgrees ==
    ASSUME TransportInv, AgreeInv, NEW s \in Sides, phase[s] \in {"ek", "ct"},
           NEW x \in Secrets, Split(s, x), altered = 0 => x = "shared",
           UNCHANGED <<ends, counters, history, altered>>,
           recvKey \in [Sides -> Keys], WireFair, WireInOrder'
    PROVE  AgreeInv'
<1>1. phase \in [Sides -> Phases] /\ sendKey \in [Sides -> Keys]
  BY DEF TransportInv, TransportTypeOK
<1>2. /\ phase'[s] = "open" /\ sendKey'[s] = Key(x, Label(s))
      /\ recvKey'[s] = Key(x, Label(Peer(s)))
      /\ \A u \in Sides \ {s} : /\ phase'[u] = phase[u]
                                /\ sendKey'[u] = sendKey[u] /\ recvKey'[u] = recvKey[u]
  BY <1>1 DEF Split, Goes
<1>3. KeysFair
  <2> SUFFICES ASSUME NEW u \in Sides
               PROVE  \/ /\ sendKey'[u] = sendKey[u] /\ recvKey'[u] = recvKey[u]
                         /\ phase'[u] = phase[u]
                      \/ /\ phase[u] \in {"ek", "ct"} /\ phase'[u] = "open"
                         /\ \E y \in Secrets : /\ sendKey'[u] = Key(y, Label(u))
                                               /\ recvKey'[u] = Key(y, Label(Peer(u)))
                                               /\ altered = 0 => y = "shared"
    BY DEF KeysFair
  <2>1. CASE u = s
    BY <1>2, <2>1
  <2>2. CASE u # s
    BY <1>2, <2>2
  <2> QED BY <2>1, <2>2
<1>4. CountFair
  <2>1. altered \in Nat /\ altered' = altered
    BY DEF AgreeInv
  <2>2. \A u \in Sides : phase'[u] = "refused" => phase[u] = "refused"
    BY <1>2
  <2> QED BY <2>1, <2>2 DEF CountFair
<1>5. HistoryKept
  BY SameHistory DEF TransportInv
<1> QED BY <1>3, <1>4, <1>5, QuietAgree

\* The network: it moves no side.
LEMMA NetworkAgrees ==
    ASSUME TransportInv, AgreeInv, UNCHANGED <<ends, phase, keys, counters>>, HistoryKept,
           altered' \in Nat, altered' = 0 => altered = 0, WireFair, WireInOrder'
    PROVE  AgreeInv'
<1>1. KeysFair /\ CountFair
  BY DEF KeysFair, CountFair, keys
<1> QED BY <1>1, QuietAgree

\* Without a change of the wire, the order stays.
LEMMA SameWire ==
    ASSUME TransportInv, AgreeInv, UNCHANGED <<wire, counters, broken, altered>>, HistoryKept,
           \A u \in Sides : phase[u] \in Ended => phase'[u] \in Ended
    PROVE  WireFair /\ WireInOrder'
<1>1. WireFair
  BY OldIsFair DEF WireFair
<1>2. UNCHANGED <<wire, sealCount, openCount, broken>>
  BY DEF counters
<1>3. WireInOrder'
  BY <1>2, TwoSides DEF AgreeInv, WireInOrder, Peer
<1> QED BY <1>1, <1>3

-----------------------------------------------------------------------------
LEMMA GreetAgrees == ASSUME TransportInv, AgreeInv, Greet PROVE AgreeInv'
<1> DEFINE s == "initiator"
<1>1. s \in Sides /\ phase[s] = "start" /\ Goes(s, "header") /\ Peer(s) \in Sides /\ Peer(s) # s
  BY TwoSides DEF Greet, Sides
<1>2. /\ wire \in [Sides -> Seq(Items)] /\ wire[s] \in Seq(Items)
      /\ Header(s) \in Items /\ Header(s).kind = "header"
      /\ Header(s).version = version[s] /\ Header(s).network = network[s] /\ Header(s).intact
  BY <1>1, ItemTypes, ConnTypes DEF TransportInv, TransportTypeOK, Header
<1>3. /\ wire'[s] = Append(wire[s], Header(s)) /\ wire'[Peer(s)] = wire[Peer(s)]
      /\ UNCHANGED <<ends, keys, counters, history, broken, altered>>
  BY <1>1, <1>2 DEF Greet
<1>4. UNCHANGED <<sealCount, openCount>> /\ HistoryKept
  BY <1>3, SameHistory DEF counters, TransportInv
<1> HIDE DEF s
<1>5. \A i \in DOMAIN wire'[s] : wire'[s][i] = Header(s) \/ \E j \in DOMAIN wire[s] : i = j /\ wire'[s][i] = wire[s][j]
  <2> TAKE i \in DOMAIN wire'[s]
  <2>1. i \in 1..(Len(wire[s]) + 1)
    BY <1>2, <1>3
  <2>2. CASE i <= Len(wire[s])
    BY <1>2, <1>3, <2>1, <2>2
  <2>3. CASE i = Len(wire[s]) + 1
    BY <1>2, <1>3, <2>3
  <2>4. i <= Len(wire[s]) \/ i = Len(wire[s]) + 1
    BY <1>2, <2>1
  <2> QED BY <2>2, <2>3, <2>4
<1>6. FairItem(s, Header(s))
  BY <1>2 DEF FairItem
<1>7. WireFair
  <2> SUFFICES ASSUME NEW u \in Sides, NEW i \in DOMAIN wire'[u]
               PROVE  FairItem(u, wire'[u][i])
    BY DEF WireFair
  <2>1. CASE u = s
    BY <1>3, <1>4, <1>5, <1>6, <2>1, OldIsFair
  <2>2. CASE u # s
    <3>1. u = Peer(s)
      BY <1>1, <2>2 DEF Sides, Peer
    <3> QED BY <1>3, <1>4, <3>1, OldIsFair
  <2> QED BY <2>1, <2>2
<1>8. sealed[s] = <<>> /\ sealCount[s] = 0 /\ openCount[Peer(s)] = 0
  <2>1. sealed[s] = <<>>
    BY <1>1 DEF TransportInv, KeysAreOwn
  <2>2. got[s] \in Seq(Bodies) /\ Len(got[s]) <= Len(sealed[s])
    BY <1>1, ConnTypes DEF AgreeInv, OpenedUnderKey
  <2>3. Peer(Peer(s)) = s
    BY <1>1, TwoSides
  <2> QED BY <1>1, <2>1, <2>2, <2>3, ConnTypes
<1>9. WireInOrder'
  <2> SUFFICES ASSUME NEW u \in Sides, phase'[Peer(u)] \notin Ended
               PROVE  \E m \in Nat : Window(wire'[u], openCount[Peer(u)], m) /\ (broken \/ m = sealCount[u])
    BY <1>3, <1>4 DEF WireInOrder, Peer
  <2>1. CASE u = s
    <3>1. \A i \in DOMAIN wire[s] : wire[s][i].kind # "frame"
      BY <1>1, <1>8 DEF AgreeInv, WireIsOwn
    <3>2. \A i \in DOMAIN wire'[s] : wire'[s][i].kind # "frame"
      BY <1>2, <1>5, <3>1
    <3>3. wire'[s] \in Seq(Items)
      BY <1>2, <1>3
    <3>4. Window(wire'[s], 0, 0)
      BY <3>2, <3>3, WindowNoFrames
    <3> QED BY <1>8, <2>1, <3>4
  <2>2. CASE u # s
    <3>1. u = Peer(s) /\ Peer(u) = s
      BY <1>1, <2>2, TwoSides DEF Sides, Peer
    <3>2. phase[s] \notin Ended
      BY <1>1 DEF Ended
    <3> QED BY <1>3, <3>1, <3>2 DEF AgreeInv, WireInOrder
  <2> QED BY <2>1, <2>2
<1> QED BY <1>1, <1>3, <1>7, <1>9, PhaseNames, MoveAgrees

LEMMA ReadHeaderAgrees ==
    ASSUME TransportInv, AgreeInv, NEW s \in Sides, ReadHeader(s) PROVE AgreeInv'
<1>1. /\ wire \in [Sides -> Seq(Items)] /\ Peer(s) \in Sides /\ Peer(s) # s
      /\ Header(s) \in Items /\ Header(s).kind = "header" /\ Header(s).intact
      /\ Header(s).version = version[s] /\ Header(s).network = network[s]
      /\ EncapsKey \in Items /\ EncapsKey.kind = "ek" /\ EncapsKey.intact
  BY TwoSides, ItemTypes DEF TransportInv, TransportTypeOK, Header, EncapsKey
<1>2. /\ wire[Peer(s)] # <<>> /\ phase[s] = "header" /\ Item(s).kind = "header"
      /\ Item(s) = Head(wire[Peer(s)]) /\ wire[Peer(s)] \in Seq(Items)
  BY <1>1 DEF ReadHeader, Reads, Item
<1>3. PICK p \in {"ek", "ct", "failed"}, out \in {<<>>, <<Header(s), EncapsKey>>} :
         /\ Goes(s, p) /\ wire' = Rest(s, out)
         /\ p \in {"ek", "ct"} => HeaderOk(s, Item(s))
  BY DEF ReadHeader
<1>4. UNCHANGED <<ends, keys, counters, history, broken, altered>> /\ HistoryKept
  BY SameHistory DEF ReadHeader, TransportInv
<1>5. p \in {"ek", "ct"} => Checked(s)
  <2> SUFFICES ASSUME HeaderOk(s, Item(s)) PROVE Checked(s)
    BY <1>3
  <2>1. 1 \in DOMAIN wire[Peer(s)] /\ wire[Peer(s)][1] = Item(s)
    BY <1>2
  <2>2. \/ Peer(s) \in rewritten
        \/ Item(s).version = version[Peer(s)] /\ Item(s).network = network[Peer(s)]
    BY <1>1, <1>2, <2>1 DEF AgreeInv, WireIsOwn
  <2> QED BY <2>2 DEF HeaderOk, Checked, Met
<1>6. FairItem(s, Header(s)) /\ FairItem(s, EncapsKey)
  BY <1>1 DEF FairItem
<1>7. out \in Seq(Items) /\ \A i \in DOMAIN out : FairItem(s, out[i]) /\ out[i].kind # "frame"
  <2>1. CASE out = <<>>
    BY <2>1
  <2>2. CASE out = <<Header(s), EncapsKey>>
    <3>1. out \in Seq(Items) /\ DOMAIN out = 1..2 /\ out[1] = Header(s) /\ out[2] = EncapsKey
      BY <1>1, <2>2
    <3> QED BY <1>1, <1>6, <3>1
  <2> QED BY <1>3, <2>1, <2>2
<1>8. phase \in [Sides -> Phases] /\ phase'[Peer(s)] = phase[Peer(s)]
  BY <1>1, <1>3 DEF TransportInv, TransportTypeOK, Goes
<1>9. sealed[s] = <<>> /\ phase[s] \notin Ended
  BY <1>2 DEF TransportInv, KeysAreOwn, Handshaking, Ended
<1>10. WireFair
  BY <1>2, <1>3, <1>4, <1>7, ReadIsFair
<1>11. WireInOrder'
  BY <1>2, <1>3, <1>4, <1>7, <1>8, <1>9, ReadInOrder
<1> QED BY <1>2, <1>3, <1>4, <1>5, <1>10, <1>11, PhaseNames, MoveAgrees

LEMMA ReadKeyAgrees ==
    ASSUME TransportInv, AgreeInv, recvKey \in [Sides -> Keys], NEW s \in Sides, ReadKey(s)
    PROVE  AgreeInv'
<1> DEFINE x == Item(s)
           out == <<CipherText(x)>>
<1>1. /\ wire \in [Sides -> Seq(Items)] /\ Peer(s) \in Sides /\ Peer(s) # s
      /\ wire[Peer(s)] # <<>> /\ phase[s] = "ek" /\ x.kind = "ek"
      /\ x = Head(wire[Peer(s)]) /\ wire[Peer(s)] \in Seq(Items)
  BY TwoSides DEF TransportInv, TransportTypeOK, ReadKey, Reads, Item
<1>2. x \in Items /\ 1 \in DOMAIN wire[Peer(s)] /\ wire[Peer(s)][1] = x
  BY <1>1
<1>3. altered = 0 => x.intact
  BY <1>1, <1>2 DEF AgreeInv, Unaltered
<1>4. Secret(x) \in Secrets /\ (altered = 0 => Secret(x) = "shared")
  BY <1>3 DEF Secret, Secrets
<1>5. /\ wire' = Rest(s, out) /\ Split(s, Secret(x))
      /\ UNCHANGED <<ends, counters, history, broken, altered>> /\ HistoryKept
  BY SameHistory DEF ReadKey, TransportInv
<1>6. /\ CipherText(x) \in Items /\ CipherText(x).kind = "ct" /\ CipherText(x).intact
      /\ CipherText(x).secret = Secret(x)
  BY <1>2, ItemTypes DEF TransportInv, TransportTypeOK, CipherText
<1>7. FairItem(s, CipherText(x))
  BY <1>4, <1>5, <1>6 DEF FairItem
<1>8. out \in Seq(Items) /\ \A i \in DOMAIN out : FairItem(s, out[i]) /\ out[i].kind # "frame"
  <2>1. out \in Seq(Items) /\ DOMAIN out = 1..1 /\ out[1] = CipherText(x)
    BY <1>6
  <2> QED BY <1>6, <1>7, <2>1
<1>9. phase \in [Sides -> Phases] /\ phase'[Peer(s)] = phase[Peer(s)]
  BY <1>1, <1>5 DEF TransportInv, TransportTypeOK, Split, Goes
<1>10. sealed[s] = <<>> /\ phase[s] \notin Ended
  BY <1>1 DEF TransportInv, KeysAreOwn, Handshaking, Ended
<1> HIDE DEF out, x
<1>11. WireFair
  BY <1>1, <1>5, <1>8, ReadIsFair
<1>12. WireInOrder'
  BY <1>1, <1>5, <1>8, <1>9, <1>10, ReadInOrder
<1> QED BY <1>1, <1>4, <1>5, <1>11, <1>12, SplitAgrees

LEMMA ReadCipherTextAgrees ==
    ASSUME TransportInv, AgreeInv, recvKey \in [Sides -> Keys], NEW s \in Sides,
           ReadCipherText(s)
    PROVE  AgreeInv'
<1> DEFINE x == Item(s)
           out == <<>>
<1>1. /\ wire \in [Sides -> Seq(Items)] /\ Peer(s) \in Sides /\ Peer(s) # s
      /\ wire[Peer(s)] # <<>> /\ phase[s] = "ct" /\ x.kind = "ct"
      /\ x = Head(wire[Peer(s)]) /\ wire[Peer(s)] \in Seq(Items)
  BY TwoSides DEF TransportInv, TransportTypeOK, ReadCipherText, Reads, Item
<1>2. x \in Items /\ 1 \in DOMAIN wire[Peer(s)] /\ wire[Peer(s)][1] = x
  BY <1>1
<1>3. altered = 0 => x.intact /\ x.secret = "shared"
  BY <1>1, <1>2 DEF AgreeInv, Unaltered
<1>4. Decaps(x) \in Secrets /\ (altered = 0 => Decaps(x) = "shared")
  BY <1>3 DEF Decaps, Secrets
<1>5. /\ wire' = Rest(s, out) /\ Split(s, Decaps(x))
      /\ UNCHANGED <<ends, counters, history, broken, altered>> /\ HistoryKept
  BY SameHistory DEF ReadCipherText, TransportInv
<1>6. out \in Seq(Items) /\ \A i \in DOMAIN out : FairItem(s, out[i]) /\ out[i].kind # "frame"
  OBVIOUS
<1>7. phase \in [Sides -> Phases] /\ phase'[Peer(s)] = phase[Peer(s)]
  BY <1>1, <1>5 DEF TransportInv, TransportTypeOK, Split, Goes
<1>8. sealed[s] = <<>> /\ phase[s] \notin Ended
  BY <1>1 DEF TransportInv, KeysAreOwn, Handshaking, Ended
<1> HIDE DEF out, x
<1>9. WireFair
  BY <1>1, <1>5, <1>6, ReadIsFair
<1>10. WireInOrder'
  BY <1>1, <1>5, <1>6, <1>7, <1>8, ReadInOrder
<1> QED BY <1>1, <1>4, <1>5, <1>9, <1>10, SplitAgrees

\* A side that ends, reading an item or not.
LEMMA EndAgrees ==
    ASSUME TransportInv, AgreeInv, NEW s \in Sides, NEW p \in Ended, Goes(s, p),
           phase[s] \notin Ended,
           \/ UNCHANGED wire
           \/ wire[Peer(s)] # <<>> /\ wire' = Rest(s, <<>>),
           p = "refused" /\ altered = 0 =>
               \E i \in DOMAIN sealed[Peer(s)] : SIZE[sealed[Peer(s)][i].body] > MAX_FRAME,
           UNCHANGED <<ends, keys, counters, history, broken, altered>>
    PROVE  AgreeInv'
<1>1. /\ phase'[s] = p
      /\ \A u \in Sides \ {s} : phase'[u] = phase[u]
      /\ Peer(s) \in Sides \ {s} /\ HistoryKept
  BY GoesType, TwoSides, PhaseNames, SameHistory DEF TransportInv, TransportTypeOK
<1>2. WireFair /\ WireInOrder'
  <2>1. CASE UNCHANGED wire
    BY <1>1, <2>1, SameWire
  <2>2. CASE wire[Peer(s)] # <<>> /\ wire' = Rest(s, <<>>)
    <3>1. <<>> \in Seq(Items) /\ \A i \in DOMAIN <<>> : FairItem(s, <<>>[i])
      OBVIOUS
    <3>2. WireFair
      BY <1>1, <2>2, <3>1, ReadIsFair
    <3>3. WireInOrder'
      BY <1>1, <2>2, <3>1, ReadInOrder
    <3> QED BY <3>2, <3>3
  <2> QED BY <2>1, <2>2
<1>3. p \in Phases \ {"start", "open"} /\ p \notin {"ek", "ct"} /\ p \notin Handshaking
  BY PhaseNames
<1> QED BY <1>2, <1>3, MoveAgrees

LEMMA EndsAgree ==
    ASSUME TransportInv, AgreeInv, NEW s \in Sides,
           Malformed(s) \/ TimeOut(s) \/ EndOfStream(s) \/ Quit(s)
    PROVE  AgreeInv'
<1> USE PhaseNames
<1>1. CASE Malformed(s)
  <2>1. /\ wire[Peer(s)] # <<>> /\ wire' = Rest(s, <<>>) /\ Goes(s, "failed")
        /\ phase[s] \in {"ek", "ct"}
        /\ UNCHANGED <<ends, keys, counters, history, broken, altered>>
    BY <1>1 DEF Malformed, Reads
  <2> QED BY <2>1, EndAgrees
<1>2. CASE TimeOut(s)
  <2>1. /\ UNCHANGED wire /\ Goes(s, "failed") /\ phase[s] \in Handshaking
        /\ UNCHANGED <<ends, keys, counters, history, broken, altered>>
    BY <1>2 DEF TimeOut, TimedRead
  <2> QED BY <2>1, EndAgrees
<1>3. CASE EndOfStream(s)
  <2>1. /\ UNCHANGED wire /\ phase[s] \in Handshaking \cup {"open"}
        /\ UNCHANGED <<ends, keys, counters, history, broken, altered>>
    BY <1>3 DEF EndOfStream
  <2>2. PICK p \in {"closed", "failed"} : Goes(s, p)
    BY <1>3 DEF EndOfStream
  <2> QED BY <2>1, <2>2, EndAgrees
<1>4. CASE Quit(s)
  <2>1. /\ UNCHANGED wire /\ Goes(s, "closed") /\ phase[s] = "open"
        /\ UNCHANGED <<ends, keys, counters, history, broken, altered>>
    BY <1>4 DEF Quit
  <2> QED BY <2>1, EndAgrees
<1> QED BY <1>1, <1>2, <1>3, <1>4

\* An unaltered frame that is refused was the next one, under the right key:
\* only its length is left to object to.
LEMMA RefuseAgrees ==
    ASSUME TransportInv, AgreeInv, NEW s \in Sides, Refuse(s) PROVE AgreeInv'
<1> DEFINE q == Peer(s)
           x == Item(s)
<1>1. /\ q \in Sides /\ wire[q] \in Seq(Items) /\ sealed[q] \in Seq(Frames)
      /\ wire[q] # <<>> /\ phase[s] = "open" /\ x.kind = "frame" /\ ~Opens(s, x)
      /\ x = Head(wire[q]) /\ Peer(q) = s /\ openCount[s] \in Nat
      /\ wire' = Rest(s, <<>>) /\ Goes(s, "refused")
      /\ UNCHANGED <<ends, keys, counters, history, broken, altered>>
  BY TwoSides, ConnTypes DEF Refuse, Reads, Item
<1>2. 1 \in DOMAIN wire[q] /\ wire[q][1] = x
  BY <1>1
<1>3. ASSUME altered = 0
      PROVE  \E i \in DOMAIN sealed[q] : SIZE[sealed[q][i].body] > MAX_FRAME
  <2>1. x.intact
    BY <1>1, <1>2, <1>3 DEF AgreeInv, Unaltered
  <2>2. x.key = sendKey[q] /\ sealed[q] # <<>>
    BY <1>1, <1>2 DEF AgreeInv, WireIsOwn
  <2>3. /\ sendKey[q] = Key("shared", Label(q))
        /\ recvKey[s] = Key("shared", Label(Peer(s)))
    BY <1>1, <1>3, <2>2 DEF AgreeInv, Unaltered
  <2>4. x.key = recvKey[s]
    BY <2>2, <2>3
  <2>5. phase[Peer(q)] \notin Ended
    BY <1>1 DEF Ended
  <2>6. PICK m \in Nat : Window(wire[q], openCount[s], m)
    BY <1>1, <2>5 DEF AgreeInv, WireInOrder
  <2>7. x.nonce = openCount[s]
    BY <1>1, <2>6, WindowTail
  <2>8. ~LengthOk(x.body)
    BY <1>1, <2>1, <2>4, <2>7 DEF Opens, Decrypts
  <2>9. /\ x.nonce + 1 \in DOMAIN sealed[q]
        /\ x.body = sealed[q][x.nonce + 1].body
    BY <1>1, <1>2, <2>1 DEF TransportInv, WireIsSealed
  <2>10. sealed[q][x.nonce + 1].body \in Bodies
    <3>1. sealed[q][x.nonce + 1] \in Frames
      BY <1>1, <2>9
    <3> QED BY <3>1 DEF Frames
  <2>11. SIZE[x.body] \in Nat /\ MAX_FRAME \in Nat /\ TAG_LEN \in Nat
    BY <2>9, <2>10, TransportAssumption
  <2>12. ~(SIZE[x.body] <= MAX_FRAME)
    BY <2>8, <2>11 DEF LengthOk
  <2>13. SIZE[x.body] > MAX_FRAME
    BY <2>11, <2>12
  <2> QED BY <2>9, <2>13
<1>4. phase[s] \notin Ended /\ "refused" \in Ended
  BY <1>1 DEF Ended
<1> QED BY <1>1, <1>3, <1>4, EndAgrees

LEMMA AlterAgrees == ASSUME TransportInv, AgreeInv, NEW s \in Sides, Alter(s) PROVE AgreeInv'
<1>1. /\ wire \in [Sides -> Seq(Items)] /\ wire[s] \in Seq(Items) /\ altered \in Nat
      /\ altered' = altered + 1
      /\ UNCHANGED <<ends, phase, keys, counters, broken>> /\ HistoryKept
  BY ConnTypes DEF AgreeInv, Alter, HistoryKept, TransportInv, TransportTypeOK
<1>2. altered' \in Nat /\ altered' # 0
  BY <1>1
<1>3. PICK i \in DOMAIN wire[s] : /\ \E x \in Damaged(wire[s][i]) : wire' = [wire EXCEPT ![s][i] = x]
                                  /\ wire[s][i].kind = "header" => s \in rewritten'
  BY DEF Alter
<1>4. PICK x \in Damaged(wire[s][i]) : wire' = [wire EXCEPT ![s][i] = x]
  BY <1>3
<1>5. wire[s][i] \in Items
  BY <1>1, <1>3
<1>6. x \in Items /\ ~x.intact
  BY <1>5, DamagedTypes
<1>7. /\ x.kind = wire[s][i].kind
      /\ x.kind = "frame" => x.key = wire[s][i].key /\ x.nonce = wire[s][i].nonce
  <2>1. CASE wire[s][i].kind = "frame"
    <3>1. wire[s][i] \in Frames
      BY <1>5, <2>1 DEF Items, HeaderItems, EkItems, CtItems
    <3>2. PICK b \in Bodies : x = [wire[s][i] EXCEPT !.intact = FALSE, !.body = b]
      BY <2>1 DEF Damaged
    <3> QED BY <3>1, <3>2 DEF Frames
  <2>2. CASE wire[s][i].kind = "header"
    BY <2>2 DEF Damaged
  <2>3. CASE wire[s][i].kind \notin {"frame", "header"}
    <3>1. x = [wire[s][i] EXCEPT !.intact = FALSE]
      BY <2>3 DEF Damaged
    <3> QED BY <1>5, <2>3, <3>1 DEF Items, HeaderItems, EkItems, CtItems, Frames
  <2> QED BY <2>1, <2>2, <2>3
<1>8. /\ wire'[s] = [wire[s] EXCEPT ![i] = x] /\ wire'[s] \in Seq(Items)
      /\ Len(wire'[s]) = Len(wire[s]) /\ DOMAIN wire'[s] = DOMAIN wire[s]
      /\ \A u \in Sides \ {s} : wire'[u] = wire[u]
  BY <1>1, <1>3, <1>4, <1>6
<1>9. \A j \in DOMAIN wire[s] : wire'[s][j] = IF j = i THEN x ELSE wire[s][j]
  BY <1>3, <1>8
<1>10. WireFair
  <2> SUFFICES ASSUME NEW u \in Sides, NEW j \in DOMAIN wire'[u] PROVE FairItem(u, wire'[u][j])
    BY DEF WireFair
  <2>1. CASE u # s
    BY <1>1, <1>2, <1>8, <2>1, OldIsFair
  <2>2. CASE u = s /\ j # i
    BY <1>1, <1>2, <1>8, <1>9, <2>2, OldIsFair
  <2>3. CASE u = s /\ j = i
    <3>1. wire'[u][j] = x
      BY <1>3, <1>9, <2>3
    <3> QED BY <1>2, <1>3, <1>6, <1>7, <2>3, <3>1 DEF FairItem
  <2> QED BY <2>1, <2>2, <2>3
<1>11. UNCHANGED <<sealCount, openCount, phase, broken>>
  BY <1>1 DEF counters
<1>12. WireInOrder'
  <2> SUFFICES ASSUME NEW u \in Sides, phase[Peer(u)] \notin Ended
               PROVE  \E m \in Nat : Window(wire'[u], openCount[Peer(u)], m) /\ (broken \/ m = sealCount[u])
    BY <1>11 DEF WireInOrder, Peer
  <2>1. PICK m \in Nat : Window(wire[u], openCount[Peer(u)], m) /\ (broken \/ m = sealCount[u])
    BY DEF AgreeInv, WireInOrder
  <2>2. CASE u # s
    BY <1>8, <2>1, <2>2
  <2>3. CASE u = s
    <3>1. \A j \in DOMAIN wire'[s] : /\ wire'[s][j].kind = wire[s][j].kind
                                     /\ wire'[s][j].kind = "frame" => wire'[s][j].nonce = wire[s][j].nonce
      BY <1>7, <1>8, <1>9
    <3>2. openCount[Peer(s)] \in Nat /\ Len(wire'[s]) <= Len(wire[s])
      BY <1>1, <1>8, ConnTypes, TwoSides
    <3> DEFINE v == wire'[s]
               w == wire[s]
               n == openCount[Peer(s)]
    <3>4. /\ v \in Seq(Items) /\ w \in Seq(Items) /\ n \in Nat /\ Window(w, n, m)
          /\ Len(v) <= Len(w)
          /\ \A j \in DOMAIN v : v[j].kind = w[j].kind
                                 /\ (v[j].kind = "frame" => v[j].nonce = w[j].nonce)
      BY <1>1, <1>8, <2>1, <2>3, <3>1, <3>2
    <3> HIDE DEF v, w, n
    <3>5. \E k \in Nat : Window(v, n, k) /\ (Len(v) = Len(w) => k = m)
      BY <3>4, WindowPart
    <3>3. PICK k \in Nat : Window(wire'[s], openCount[Peer(s)], k) /\ (Len(wire'[s]) = Len(wire[s]) => k = m)
      BY <3>5 DEF v, w, n
    <3> QED BY <1>8, <2>1, <2>3, <3>3
  <2> QED BY <2>2, <2>3
<1> QED BY <1>1, <1>2, <1>10, <1>12, NetworkAgrees

LEMMA BreakAgrees == ASSUME TransportInv, AgreeInv, Break PROVE AgreeInv'
<1>1. /\ wire \in [Sides -> Seq(Items)] /\ altered \in Nat /\ broken' = TRUE
      /\ UNCHANGED <<ends, phase, keys, counters, altered>> /\ HistoryKept
  BY ConnTypes, SameHistory DEF AgreeInv, Break, TransportInv
<1>2. PICK c \in 0..Len(wire["initiator"]), d \in 0..Len(wire["responder"]) :
         wire' = [s \in Sides |-> SubSeq(wire[s], 1, IF s = "initiator" THEN c ELSE d)]
  BY DEF Break
<1>3. ASSUME NEW u \in Sides
      PROVE  /\ wire'[u] \in Seq(Items) /\ Len(wire'[u]) <= Len(wire[u])
             /\ \A i \in DOMAIN wire'[u] : i \in DOMAIN wire[u] /\ wire'[u][i] = wire[u][i]
  <2>1. PICK k \in 0..Len(wire[u]) : wire'[u] = SubSeq(wire[u], 1, k)
    BY <1>2 DEF Sides
  <2>2. wire[u] \in Seq(Items)
    BY <1>1
  <2>3. SubSeq(wire[u], 1, k) \in Seq(Items) /\ Len(SubSeq(wire[u], 1, k)) = k
    BY <2>1, <2>2
  <2>4. \A i \in 1..k : SubSeq(wire[u], 1, k)[i] = wire[u][i]
    BY <2>1, <2>2
  <2>5. k <= Len(wire[u])
    BY <2>2
  <2> QED BY <2>1, <2>2, <2>3, <2>4, <2>5
<1>4. WireFair
  BY <1>1, <1>3, OldIsFair DEF WireFair
<1>5. UNCHANGED <<sealCount, openCount, phase>>
  BY <1>1 DEF counters
<1>6. WireInOrder'
  <2> SUFFICES ASSUME NEW u \in Sides, phase[Peer(u)] \notin Ended
               PROVE  \E m \in Nat : Window(wire'[u], openCount[Peer(u)], m)
    BY <1>1, <1>5 DEF WireInOrder, Peer
  <2>1. PICK k \in Nat : Window(wire[u], openCount[Peer(u)], k)
    BY DEF AgreeInv, WireInOrder
  <2>2. \A i \in DOMAIN wire'[u] : /\ wire'[u][i].kind = wire[u][i].kind
                                   /\ wire'[u][i].kind = "frame" => wire'[u][i].nonce = wire[u][i].nonce
    BY <1>3
  <2>3. openCount[Peer(u)] \in Nat /\ wire[u] \in Seq(Items) /\ wire'[u] \in Seq(Items)
        /\ Len(wire'[u]) <= Len(wire[u])
    BY <1>3, ConnTypes, TwoSides
  <2> DEFINE v == wire'[u]
             w == wire[u]
             o == openCount[Peer(u)]
  <2>4. /\ v \in Seq(Items) /\ w \in Seq(Items) /\ o \in Nat /\ Window(w, o, k)
        /\ Len(v) <= Len(w)
        /\ \A j \in DOMAIN v : v[j].kind = w[j].kind
                               /\ (v[j].kind = "frame" => v[j].nonce = w[j].nonce)
    BY <2>1, <2>2, <2>3
  <2> HIDE DEF v, w, o
  <2>5. \E l \in Nat : Window(v, o, l) /\ (Len(v) = Len(w) => l = k)
    BY ONLY <2>4, k \in Nat, WindowPart
  <2> QED BY <2>5 DEF v, w, o
<1> QED BY <1>1, <1>4, <1>6, NetworkAgrees

LEMMA SendAgrees ==
    ASSUME TransportInv, AgreeInv, NEW s \in Sides, NEW b \in Bodies, Send(s, b)
    PROVE  AgreeInv'
<1> DEFINE f == Frame(sendKey[s], sealCount[s], b)
<1>1. /\ f \in Frames /\ f.nonce = sealCount[s] /\ f.key = sendKey[s] /\ f.intact
      /\ f.kind = "frame" /\ f \in Items
      /\ sealed' = [sealed EXCEPT ![s] = Append(sealed[s], f)]
      /\ wire' = [wire EXCEPT ![s] = IF broken THEN wire[s] ELSE Append(wire[s], f)]
  BY SendFacts DEF Frame, Items
<1>2. /\ sealCount' = [sealCount EXCEPT ![s] = sealCount[s] + 1] /\ phase[s] = "open"
      /\ UNCHANGED <<version, network, phase, sendKey, recvKey, openCount, got, rewritten, broken, altered>>
  BY DEF Send, ends, keys
<1> HIDE DEF f
<1>3. /\ wire \in [Sides -> Seq(Items)] /\ sealed \in [Sides -> Seq(Frames)]
      /\ sealCount \in [Sides -> Nat]
      /\ wire[s] \in Seq(Items) /\ sealed[s] \in Seq(Frames) /\ sealCount[s] \in Nat
  BY DEF TransportInv, TransportTypeOK
<1>4. /\ sealed'[s] = Append(sealed[s], f) /\ sealed'[s] # <<>>
      /\ Len(sealed'[s]) = Len(sealed[s]) + 1
      /\ \A i \in DOMAIN sealed[s] : i \in DOMAIN sealed'[s] /\ sealed'[s][i] = sealed[s][i]
      /\ \A u \in Sides \ {s} : sealed'[u] = sealed[u] /\ wire'[u] = wire[u]
                                /\ sealCount'[u] = sealCount[u]
      /\ sealCount'[s] = sealCount[s] + 1
      /\ wire'[s] = IF broken THEN wire[s] ELSE Append(wire[s], f)
  BY <1>1, <1>2, <1>3
<1>5. \A u \in Sides : sealed[u] # <<>> => sealed'[u] # <<>>
  BY <1>4
<1>6. ASSUME NEW i \in DOMAIN wire'[s]
      PROVE  wire'[s][i] = f \/ (i \in DOMAIN wire[s] /\ wire'[s][i] = wire[s][i])
  <2>1. CASE broken
    BY <1>4, <1>6, <2>1
  <2>2. CASE ~broken
    <3>1. wire'[s] = Append(wire[s], f) /\ i \in 1..(Len(wire[s]) + 1) /\ Len(wire[s]) \in Nat
      BY <1>3, <1>4, <1>6, <2>2
    <3>2. CASE i <= Len(wire[s])
      BY <1>3, <3>1, <3>2
    <3>3. CASE i = Len(wire[s]) + 1
      BY <1>3, <3>1, <3>3
    <3>4. i <= Len(wire[s]) \/ i = Len(wire[s]) + 1
      BY <3>1
    <3> QED BY <3>2, <3>3, <3>4
  <2> QED BY <2>1, <2>2
<1>7. KeysArePaired' /\ HaveMet'
  BY <1>2 DEF AgreeInv, KeysArePaired, HaveMet, Key, Label, Peer, Checked, Met
<1>8. WireIsOwn'
  <2> SUFFICES ASSUME NEW u \in Sides, NEW i \in DOMAIN wire'[u]
               PROVE  /\ wire'[u][i].kind = "header" =>
                            \/ u \in rewritten'
                            \/ wire'[u][i].version = version[u] /\ wire'[u][i].network = network[u]
                      /\ wire'[u][i].kind = "frame" =>
                            wire'[u][i].key = sendKey[u] /\ sealed'[u] # <<>>
    BY <1>2 DEF WireIsOwn
  <2>1. CASE u = s /\ wire'[s][i] = f
    BY <1>1, <1>4, <2>1
  <2>2. CASE i \in DOMAIN wire[u] /\ wire'[u][i] = wire[u][i]
    BY <1>2, <1>5, <2>2 DEF AgreeInv, WireIsOwn
  <2>3. CASE u # s
    BY <1>4, <2>2, <2>3
  <2> QED BY <1>6, <2>1, <2>2, <2>3
<1>9. OpenedUnderKey'
  <2> SUFFICES ASSUME NEW u \in Sides
               PROVE  /\ phase[u] \in {"start"} \cup Handshaking => got[Peer(u)] = <<>>
                      /\ Len(got[u]) <= Len(sealed'[u])
                      /\ got[u] # <<>> => recvKey[Peer(u)] = sendKey[u]
    BY <1>2 DEF OpenedUnderKey, Peer
  <2>1. /\ phase[u] \in {"start"} \cup Handshaking => got[Peer(u)] = <<>>
        /\ Len(got[u]) <= Len(sealed[u])
        /\ got[u] # <<>> => recvKey[Peer(u)] = sendKey[u]
        /\ Len(got[u]) \in Nat /\ Len(sealed[u]) \in Nat
    BY ConnTypes DEF AgreeInv, OpenedUnderKey
  <2>2. Len(got[u]) <= Len(sealed'[u])
    <3>1. Len(sealed'[u]) = Len(sealed[u]) \/ Len(sealed'[u]) = Len(sealed[u]) + 1
      BY <1>4
    <3> QED BY <2>1, <3>1
  <2> QED BY <2>1, <2>2
<1>10. WireInOrder'
  <2> SUFFICES ASSUME NEW u \in Sides, phase[Peer(u)] \notin Ended
               PROVE  \E m \in Nat : Window(wire'[u], openCount[Peer(u)], m) /\ (broken \/ m = sealCount'[u])
    BY <1>2 DEF WireInOrder, Peer
  <2>1. PICK m \in Nat : Window(wire[u], openCount[Peer(u)], m) /\ (broken \/ m = sealCount[u])
    BY DEF AgreeInv, WireInOrder
  <2>2. CASE u # s
    BY <1>4, <2>1, <2>2
  <2>3. CASE u = s /\ broken
    BY <1>4, <2>1, <2>3
  <2>4. CASE u = s /\ ~broken
    <3> DEFINE w == wire[s]
               n == openCount[Peer(s)]
    <3>1. /\ w \in Seq(Items) /\ n \in Nat /\ Window(w, n, m) /\ f \in Items
          /\ f.kind = "frame" /\ f.nonce = m
      BY <1>1, <1>3, <2>1, <2>4, ConnTypes, TwoSides
    <3> HIDE DEF w, n
    <3>2. Window(Append(w, f), n, m + 1)
      BY <3>1, WindowAppend
    <3>3. m + 1 \in Nat /\ m + 1 = sealCount'[u] /\ wire'[u] = Append(w, f)
      BY <1>4, <2>1, <2>4 DEF w
    <3> QED BY <2>4, <3>2, <3>3 DEF n
  <2> QED BY <2>2, <2>3, <2>4
<1>11. Unaltered'
  <2> SUFFICES ASSUME altered = 0, NEW u \in Sides
               PROVE  /\ \A i \in DOMAIN wire'[u] :
                            wire'[u][i].intact /\ (wire'[u][i].kind = "ct" => wire'[u][i].secret = "shared")
                      /\ phase[u] = "open" => sendKey[u] = Key("shared", Label(u))
                                              /\ recvKey[u] = Key("shared", Label(Peer(u)))
                      /\ sealed'[u] # <<>> => sendKey[u] = Key("shared", Label(u))
    BY <1>2 DEF Unaltered, Key, Label, Peer
  <2>1. /\ \A i \in DOMAIN wire[u] :
            wire[u][i].intact /\ (wire[u][i].kind = "ct" => wire[u][i].secret = "shared")
        /\ phase[u] = "open" => sendKey[u] = Key("shared", Label(u))
                                /\ recvKey[u] = Key("shared", Label(Peer(u)))
        /\ sealed[u] # <<>> => sendKey[u] = Key("shared", Label(u))
    BY DEF AgreeInv, Unaltered
  <2>2. CASE u # s
    BY <1>4, <2>1, <2>2
  <2>3. CASE u = s
    BY <1>1, <1>2, <1>6, <2>1, <2>3
  <2> QED BY <2>2, <2>3
<1>12. RefusesOnlyDamage'
  <2> SUFFICES ASSUME NEW u \in Sides, phase[u] = "refused", ~(altered > 0)
               PROVE  \E i \in DOMAIN sealed'[Peer(u)] : SIZE[sealed'[Peer(u)][i].body] > MAX_FRAME
    BY <1>2 DEF RefusesOnlyDamage, Peer
  <2>1. PICK i \in DOMAIN sealed[Peer(u)] : SIZE[sealed[Peer(u)][i].body] > MAX_FRAME
    BY DEF AgreeInv, RefusesOnlyDamage
  <2>2. i \in DOMAIN sealed'[Peer(u)] /\ sealed'[Peer(u)][i] = sealed[Peer(u)][i]
    BY <1>4, TwoSides
  <2> QED BY <2>1, <2>2
<1>13. altered' \in Nat
  BY <1>2 DEF AgreeInv
<1> QED BY <1>7, <1>8, <1>9, <1>10, <1>11, <1>12, <1>13 DEF AgreeInv

LEMMA RecvAgrees ==
    ASSUME TransportInv, AgreeInv, NEW s \in Sides, Recv(s) PROVE AgreeInv'
<1> DEFINE q == Peer(s)
           x == Head(wire[q])
           b == sealed[q][Len(got[q]) + 1].body
<1>1. /\ wire \in [Sides -> Seq(Items)] /\ wire[q] # <<>> /\ wire' = Rest(s, <<>>)
      /\ x.kind = "frame" /\ x = Item(s) /\ x.key = recvKey[s] /\ phase[s] = "open"
      /\ UNCHANGED <<version, network, phase, sendKey, recvKey, sealCount, sealed, rewritten, broken,
                     altered>>
      /\ openCount' = [openCount EXCEPT ![s] = openCount[s] + 1]
  BY DEF TransportInv, TransportTypeOK, Recv, Reads, Opens, Decrypts, ends, keys, Item
<1>2. /\ got' = [got EXCEPT ![q] = Append(got[q], b)] /\ b \in Bodies
      /\ Len(got[q]) + 1 \in DOMAIN sealed[q]
  BY RecvFacts
<1>3. /\ q \in Sides /\ q # s /\ Peer(q) = s /\ Sides = {s, q}
      /\ wire[s] \in Seq(Items) /\ wire[q] \in Seq(Items)
      /\ openCount \in [Sides -> Nat] /\ got \in [Sides -> Seq(Bodies)]
      /\ got[q] \in Seq(Bodies) /\ sealed[q] \in Seq(Frames)
      /\ openCount[s] \in Nat /\ openCount[q] \in Nat
  BY TwoSides DEF TransportInv, TransportTypeOK, Sides, Peer
<1>4. wire'[s] = wire[s] /\ wire'[q] = Tail(wire[q])
  <2>1. <<>> \in Seq(Items)
    OBVIOUS
  <2>2. wire'[s] = wire[s] \o <<>> /\ wire'[q] = Tail(wire[q])
    BY <1>1, <2>1, RestTypes
  <2> QED BY <1>3, <2>2
<1>5. /\ 1 \in DOMAIN wire[q] /\ wire[q][1] = x
      /\ \A i \in DOMAIN wire'[q] : i + 1 \in DOMAIN wire[q] /\ wire'[q][i] = wire[q][i + 1]
  <2>1. 1 \in DOMAIN wire[q] /\ wire[q][1] = x
    BY <1>1, <1>3
  <2>2. ASSUME NEW i \in DOMAIN wire'[q]
        PROVE  i + 1 \in DOMAIN wire[q] /\ wire'[q][i] = wire[q][i + 1]
    <3> HIDE DEF q
    <3>1. wire[q] \in Seq(Items) /\ wire[q] # <<>> /\ wire'[q] = Tail(wire[q])
      BY <1>1, <1>3, <1>4
    <3> QED BY <2>2, <3>1
  <2> QED BY <2>1, <2>2
<1> HIDE DEF b
<1>6. /\ got'[q] = Append(got[q], b) /\ got'[s] = got[s] /\ Len(got'[q]) = Len(got[q]) + 1
      /\ openCount'[s] = openCount[s] + 1 /\ openCount'[q] = openCount[q]
  BY <1>1, <1>2, <1>3
<1>7. x.key = sendKey[q] /\ sealed[q] # <<>>
  BY <1>1, <1>3, <1>5 DEF AgreeInv, WireIsOwn
<1> HIDE DEF q, x
<1>8. KeysArePaired' /\ HaveMet'
  BY <1>1 DEF AgreeInv, KeysArePaired, HaveMet, Key, Label, Peer, Checked, Met
<1>9. WireIsOwn'
  <2> SUFFICES ASSUME NEW u \in Sides, NEW i \in DOMAIN wire'[u]
               PROVE  /\ wire'[u][i].kind = "header" =>
                            \/ u \in rewritten'
                            \/ wire'[u][i].version = version[u] /\ wire'[u][i].network = network[u]
                      /\ wire'[u][i].kind = "frame" =>
                            wire'[u][i].key = sendKey[u] /\ sealed[u] # <<>>
    BY <1>1 DEF WireIsOwn
  <2>1. PICK j \in DOMAIN wire[u] : wire'[u][i] = wire[u][j]
    BY <1>3, <1>4, <1>5
  <2> QED BY <1>1, <2>1 DEF AgreeInv, WireIsOwn
<1>10. OpenedUnderKey'
  <2>1. \A u \in Sides : /\ phase[u] \in {"start"} \cup Handshaking => got[Peer(u)] = <<>>
                         /\ Len(got[u]) <= Len(sealed[u])
                         /\ got[u] # <<>> => recvKey[Peer(u)] = sendKey[u]
    BY DEF AgreeInv, OpenedUnderKey
  <2>2. /\ phase[s] \notin {"start"} \cup Handshaking
        /\ Len(got'[q]) <= Len(sealed[q])
        /\ recvKey[s] = sendKey[q]
    BY <1>1, <1>2, <1>3, <1>6, <1>7 DEF Handshaking
  <2>3. ASSUME NEW u \in Sides
        PROVE  /\ phase[u] \in {"start"} \cup Handshaking => got'[Peer(u)] = <<>>
               /\ Len(got'[u]) <= Len(sealed[u])
               /\ got'[u] # <<>> => recvKey[Peer(u)] = sendKey[u]
    <3>1. CASE u = s
      <4>1. Peer(u) = q
        BY <3>1 DEF q
      <4> QED BY <1>6, <2>1, <2>2, <3>1, <4>1
    <3>2. CASE u = q
      <4>1. Peer(u) = s
        BY <1>3, <3>2
      <4> QED BY <1>6, <2>1, <2>2, <3>2, <4>1
    <3> QED BY <1>3, <3>1, <3>2
  <2> QED BY <1>1, <2>3 DEF OpenedUnderKey, Peer
<1>11. WireInOrder'
  <2> SUFFICES ASSUME NEW u \in Sides, phase[Peer(u)] \notin Ended
               PROVE  \E m \in Nat : Window(wire'[u], openCount'[Peer(u)], m) /\ (broken \/ m = sealCount[u])
    BY <1>1 DEF WireInOrder, Peer
  <2>1. PICK m \in Nat : Window(wire[u], openCount[Peer(u)], m) /\ (broken \/ m = sealCount[u])
    BY DEF AgreeInv, WireInOrder
  <2>2. CASE u = s
    <3>1. Peer(u) = q
      BY <2>2 DEF q
    <3> QED BY <1>4, <1>6, <2>1, <2>2, <3>1
  <2>3. CASE u = q
    <3>1. Peer(u) = s
      BY <1>3, <2>3
    <3> DEFINE w == wire[q]
               n == openCount[s]
    <3>2. /\ w \in Seq(Items) /\ w # <<>> /\ n \in Nat /\ Window(w, n, m)
          /\ Head(w).kind = "frame"
      BY <1>1, <1>3, <2>1, <2>3, <3>1 DEF x
    <3> HIDE DEF w, n
    <3>3. Window(Tail(w), n + 1, m)
      BY <3>2, WindowTail
    <3> QED BY <1>4, <1>6, <2>1, <2>3, <3>1, <3>3 DEF w, n
  <2> QED BY <1>3, <2>2, <2>3
<1>12. Unaltered'
  <2> SUFFICES ASSUME altered = 0, NEW u \in Sides
               PROVE  /\ \A i \in DOMAIN wire'[u] :
                            wire'[u][i].intact /\ (wire'[u][i].kind = "ct" => wire'[u][i].secret = "shared")
                      /\ phase[u] = "open" => sendKey[u] = Key("shared", Label(u))
                                              /\ recvKey[u] = Key("shared", Label(Peer(u)))
                      /\ sealed[u] # <<>> => sendKey[u] = Key("shared", Label(u))
    BY <1>1 DEF Unaltered, Key, Label, Peer
  <2>1. \A i \in DOMAIN wire'[u] : \E j \in DOMAIN wire[u] : wire'[u][i] = wire[u][j]
    BY <1>3, <1>4, <1>5
  <2> QED BY <2>1 DEF AgreeInv, Unaltered
<1>13. RefusesOnlyDamage' /\ altered' \in Nat
  BY <1>1 DEF AgreeInv, RefusesOnlyDamage, Peer
<1> QED BY <1>8, <1>9, <1>10, <1>11, <1>12, <1>13 DEF AgreeInv

-----------------------------------------------------------------------------
\* What the next steps keep, with the type of the reading keys that the
\* assignment of both keys needs.
ConnInv == TransportInv /\ recvKey \in [Sides -> Keys] /\ AgreeInv

LEMMA ReadingKeys ==
    ASSUME TransportInv, recvKey \in [Sides -> Keys], [TransportNext]_transportVars
    PROVE  recvKey' \in [Sides -> Keys]
<1>1. ASSUME NEW s \in Sides, NEW x \in {"none", "shared", "unknown", "rejected"}, Split(s, x)
      PROVE  recvKey' \in [Sides -> Keys]
  <2>1. Key(x, Label(Peer(s))) \in Keys
    BY TwoSides DEF Key, Keys
  <2> QED BY <1>1, <2>1 DEF Split
<1>2. ASSUME NEW s \in Sides, ReadKey(s) PROVE recvKey' \in [Sides -> Keys]
  BY <1>1, <1>2, SecretTypes DEF ReadKey
<1>3. ASSUME NEW s \in Sides, ReadCipherText(s) PROVE recvKey' \in [Sides -> Keys]
  BY <1>1, <1>3, SecretTypes DEF ReadCipherText
<1>4. \/ UNCHANGED recvKey
      \/ \E s \in Sides : ReadKey(s) \/ ReadCipherText(s)
  BY DEF TransportNext, transportVars, keys, Greet, ReadHeader, Malformed, TimeOut, EndOfStream, Send, Recv,
         Refuse, Quit, Alter, Break
<1> QED BY <1>2, <1>3, <1>4

LEMMA ConnInit == TransportInit => ConnInv
<1> SUFFICES ASSUME TransportInit PROVE ConnInv
  OBVIOUS
<1>1. TransportInv
  BY InitInv
<1>2. NoKey \in Keys
  BY DEF NoKey, Keys
<1>3. /\ recvKey = [s \in Sides |-> NoKey] /\ sendKey = [s \in Sides |-> NoKey]
      /\ phase = [s \in Sides |-> IF s = "initiator" THEN "start" ELSE "header"]
      /\ wire = [s \in Sides |-> <<>>] /\ sealed = [s \in Sides |-> <<>>]
      /\ got = [s \in Sides |-> <<>>]
      /\ sealCount = [s \in Sides |-> 0] /\ openCount = [s \in Sides |-> 0]
      /\ altered = 0
  BY DEF TransportInit
<1>4. recvKey \in [Sides -> Keys]
  BY <1>2, <1>3
<1>5. KeysArePaired /\ WireIsOwn /\ HaveMet /\ altered \in Nat
  BY <1>3 DEF KeysArePaired, WireIsOwn, HaveMet
<1>6. OpenedUnderKey
  BY <1>3, TwoSides DEF OpenedUnderKey
<1>7. WireInOrder
  <2>1. <<>> \in Seq(Items) /\ \A i \in DOMAIN <<>> : <<>>[i].kind # "frame"
    OBVIOUS
  <2>2. Window(<<>>, 0, 0)
    BY <2>1, WindowNoFrames
  <2> QED BY <1>3, <2>2, TwoSides DEF WireInOrder
<1>8. Unaltered /\ RefusesOnlyDamage
  BY <1>3 DEF Unaltered, RefusesOnlyDamage
<1> QED BY <1>1, <1>4, <1>5, <1>6, <1>7, <1>8 DEF ConnInv, AgreeInv

LEMMA ConnNext == ConnInv /\ [TransportNext]_transportVars => ConnInv'
<1> SUFFICES ASSUME ConnInv, [TransportNext]_transportVars PROVE ConnInv'
  OBVIOUS
<1> USE DEF ConnInv
<1>1. TransportInv' /\ recvKey' \in [Sides -> Keys]
  BY NextInv, ReadingKeys
<1>2. AgreeInv'
  <2>1. CASE Greet
    BY <2>1, GreetAgrees
  <2>2. ASSUME NEW s \in Sides, ReadHeader(s) \/ ReadKey(s) \/ ReadCipherText(s)
        PROVE  AgreeInv'
    BY <2>2, ReadHeaderAgrees, ReadKeyAgrees, ReadCipherTextAgrees
  <2>3. ASSUME NEW s \in Sides, Malformed(s) \/ TimeOut(s) \/ EndOfStream(s) \/ Quit(s)
        PROVE  AgreeInv'
    BY <2>3, EndsAgree
  <2>4. ASSUME NEW s \in Sides, NEW b \in Bodies, Send(s, b)
        PROVE  AgreeInv'
    BY <2>4, SendAgrees
  <2>5. ASSUME NEW s \in Sides, Recv(s) \/ Refuse(s) \/ Alter(s)
        PROVE  AgreeInv'
    BY <2>5, RecvAgrees, RefuseAgrees, AlterAgrees
  <2>6. CASE Break
    BY <2>6, BreakAgrees
  <2>7. CASE UNCHANGED transportVars
    <3>1. UNCHANGED <<ends, phase, wire, keys, counters, history, broken, altered>>
      BY <2>7 DEF transportVars
    <3>2. HistoryKept
      BY <3>1, SameHistory DEF TransportInv
    <3>3. WireFair /\ WireInOrder'
      BY <3>1, <3>2, SameWire
    <3>4. altered' \in Nat /\ altered' = altered
      BY <3>1 DEF AgreeInv
    <3> QED BY <3>1, <3>2, <3>3, <3>4, NetworkAgrees
  <2> QED BY <2>1, <2>2, <2>3, <2>4, <2>5, <2>6, <2>7 DEF TransportNext
<1> QED BY <1>1, <1>2

\* The second invariant of a connection: a side that is past the headers agrees
\* with the other one unless the header it read was altered, both keys of a side
\* come from one secret, and the frames on their way are in unbroken order.
THEOREM ConnInvariant == TransportSpec => []ConnInv
<1>1. TransportInit => ConnInv
  BY ConnInit
<1>2. ConnInv /\ [TransportNext]_transportVars => ConnInv'
  BY ConnNext
<1> QED BY <1>1, <1>2, PTL DEF TransportSpec

\* A frame opens only between sides that hold the same keys, whatever was done to
\* the handshake, and only between nodes of one version and one network unless
\* the headers of both sides were altered: one altered header is not enough.
THEOREM FramesNeedAgreement == TransportSpec => []DeliversOnlyAgreed
<1>1. ConnInv => DeliversOnlyAgreed
  <2> SUFFICES ASSUME ConnInv, NEW s \in Sides, got[s] # <<>>
               PROVE  /\ sendKey[s] = recvKey[Peer(s)] /\ recvKey[s] = sendKey[Peer(s)]
                      /\ Met(s) \/ rewritten = Sides
    BY DEF DeliversOnlyAgreed, Met
  <2>1. recvKey[Peer(s)] = sendKey[s] /\ Len(got[s]) <= Len(sealed[s])
    BY DEF ConnInv, AgreeInv, OpenedUnderKey
  <2>2. got[s] \in Seq(Bodies) /\ sealed[s] \in Seq(Frames)
    BY ConnTypes DEF ConnInv
  <2>3. sealed[s] # <<>>
    BY <2>1, <2>2
  <2>4. sendKey[s][2] = Label(s)
    BY <2>3 DEF ConnInv, TransportInv, KeysAreOwn
  <2>5. sendKey[s] # NoKey
    BY <2>4, TwoSides DEF NoKey
  <2>6. PICK x \in Secrets : sendKey[s] = Key(x, Label(s)) /\ recvKey[s] = Key(x, Label(Peer(s)))
    BY <2>5 DEF ConnInv, AgreeInv, KeysArePaired
  <2>7. Peer(s) \in Sides /\ Peer(Peer(s)) = s /\ Sides = {s, Peer(s)}
    BY TwoSides DEF Sides, Peer
  <2>8. PICK y \in Secrets : /\ sendKey[Peer(s)] = Key(y, Label(Peer(s)))
                             /\ recvKey[Peer(s)] = Key(y, Label(s))
    BY <2>1, <2>5, <2>7 DEF ConnInv, AgreeInv, KeysArePaired
  <2>9. x = y
    BY <2>1, <2>6, <2>8 DEF Key
  <2>10. sendKey[Peer(s)] # NoKey
    BY <2>7, <2>8, TwoSides DEF Key, NoKey
  <2>11. Checked(s) /\ Checked(Peer(s))
    BY <2>5, <2>7, <2>10 DEF ConnInv, AgreeInv, HaveMet
  <2>12. Met(s) \/ rewritten = Sides
    <3>1. rewritten \subseteq Sides
      BY DEF ConnInv, TransportInv, TransportTypeOK
    <3>2. Met(Peer(s)) => Met(s)
      BY <2>7 DEF Met
    <3> QED BY <2>7, <2>11, <3>1, <3>2 DEF Checked
  <2> QED BY <2>1, <2>6, <2>8, <2>9, <2>12
<1> QED BY <1>1, ConnInvariant, PTL

\* Without alterations the counters of the two ends never drift apart: a side
\* refuses a frame only for its length.
THEOREM RefusalsAreDeserved == TransportSpec => []RefusesOnlyDamage
<1>1. ConnInv => RefusesOnlyDamage
  BY DEF ConnInv, AgreeInv
<1> QED BY <1>1, ConnInvariant, PTL
=============================================================================
