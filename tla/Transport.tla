------------------------------ MODULE Transport -----------------------------
(***************************************************************************)
(* One connection of net/src/transport.rs: the handshake of the initiator  *)
(* and of the responder, and the sealed frames of SecureWriter and         *)
(* SecureReader.  Cryptography is symbolic: an encapsulation key is its    *)
(* owner's, a key is a shared secret with a label, and a frame opens only  *)
(* under the key and nonce that sealed it.  A header is plain bytes, which *)
(* the keys do not depend on.                                              *)
(*                                                                         *)
(* TCP delivers in order, but the network may alter bytes and break the    *)
(* connection, losing the last bytes of either direction.                  *)
(***************************************************************************)
EXTENDS Integers, Sequences

CONSTANTS
    Versions,     \* transport versions of the releases that meet
    Networks,     \* network ids
    Bodies,       \* plaintexts
    SIZE,         \* plaintext -> its length
    MAX_FRAME,
    TAG_LEN,      \* 16: what sealing adds to the length
    MAX_SENT,     \* bound of the model: frames sent per side
    MAX_ALTERED   \* bound of the model: altered items

ASSUME TransportAssumption ==
    /\ SIZE \in [Bodies -> Nat]
    /\ MAX_FRAME \in Nat /\ TAG_LEN \in Nat
    /\ MAX_SENT \in Nat /\ MAX_ALTERED \in Nat

Sides   == {"initiator", "responder"}
Peer(s) == IF s = "initiator" THEN "responder" ELSE "initiator"

VARIABLES
    version,   \* side -> TRANSPORT_VERSION of its release
    network,   \* side -> its network_id
    phase,     \* side -> how far it is
    wire,      \* side -> what it has written and the peer has not read
    sendKey,   \* side -> key of its SecureWriter
    recvKey,   \* side -> key of its SecureReader
    sealCount, \* side -> SecureWriter.counter
    openCount, \* side -> SecureReader.counter
    sealed,    \* history: side -> the frames it has sealed
    got,       \* history: side -> what the peer has opened of its frames
    rewritten, \* history: the sides whose header the network has altered
    broken,    \* the connection is gone
    altered    \* items altered so far

ends     == <<version, network>>
keys     == <<sendKey, recvKey>>
counters == <<sealCount, openCount>>
history  == <<sealed, got, rewritten>>
transportVars == <<ends, phase, wire, keys, counters, history, broken, altered>>

-----------------------------------------------------------------------------
NoKey == <<"none", "none">>

\* A faulty variant: both directions share a key.
KeyWithoutLabel(secret, label) == <<secret, "any">>

\* derive_key
Key(secret, label) == <<secret, label>>

\* Sending label of a side.
Label(s) == IF s = "initiator" THEN "i2r" ELSE "r2i"

\* The bytes of write_header: magic tells whether they begin with MAGIC.  No
\* reader sees whether an item is intact, only what follows from its content.
Header(s) == [kind |-> "header", magic |-> TRUE, version |-> version[s],
              network |-> network[s], intact |-> TRUE]
EncapsKey == [kind |-> "ek", intact |-> TRUE]

\* What try_encaps returns for a key: only the owner of an intact key can
\* recover the secret, and only from an intact ciphertext.
Secret(ek)     == IF ek.intact THEN "shared" ELSE "unknown"
CipherText(ek) == [kind |-> "ct", secret |-> Secret(ek), intact |-> TRUE]
Decaps(ct)     == IF ct.intact /\ ct.secret = "shared" THEN "shared" ELSE "rejected"

Frame(k, n, b) == [kind |-> "frame", key |-> k, nonce |-> n, body |-> b, intact |-> TRUE]

\* A faulty variant: the network id is not compared.
SameVersionOnly(s, h) == h.magic /\ h.version = version[s]

\* read_and_check_header
HeaderOk(s, h) == h.magic /\ h.version = version[s] /\ h.network = network[s]

Handshaking == {"header", "ek", "ct"}     \* reads of the handshake
Ended       == {"failed", "closed", "refused"}

\* A faulty variant: only the initiator has a timeout.
InitiatorWaits(s) == phase[s] \in {"header", "ek"} /\ s = "initiator"

\* The reads that HANDSHAKE_TIMEOUT limits.
TimedRead(s) == phase[s] \in Handshaking

\* Side s reads an item of a kind at its phase p; the rest stays on the wire.
Reads(s, p, kind) ==
    /\ phase[s] = p
    /\ wire[Peer(s)] # <<>>
    /\ Head(wire[Peer(s)]).kind = kind

Item(s) == Head(wire[Peer(s)])

Rest(s, out) == [wire EXCEPT ![Peer(s)] = Tail(@), ![s] = @ \o out]

Goes(s, p) == phase' = [phase EXCEPT ![s] = p]

\* split: per-direction keys, counters from zero.
Split(s, secret) ==
    /\ Goes(s, "open")
    /\ sendKey' = [sendKey EXCEPT ![s] = Key(secret, Label(s))]
    /\ recvKey' = [recvKey EXCEPT ![s] = Key(secret, Label(Peer(s)))]

-----------------------------------------------------------------------------
\* initiate writes its header first.
Greet ==
    /\ phase["initiator"] = "start"
    /\ Goes("initiator", "header")
    /\ wire' = [wire EXCEPT !["initiator"] = Append(@, Header("initiator"))]
    /\ UNCHANGED <<ends, keys, counters, history, broken, altered>>

\* respond answers a header it accepts with its own and a fresh key.
ReadHeader(s) ==
    /\ Reads(s, "header", "header")
    /\ IF HeaderOk(s, Item(s))
       THEN IF s = "initiator"
            THEN Goes(s, "ek") /\ wire' = Rest(s, <<>>)
            ELSE Goes(s, "ct") /\ wire' = Rest(s, <<Header(s), EncapsKey>>)
       ELSE Goes(s, "failed") /\ wire' = Rest(s, <<>>)
    /\ UNCHANGED <<ends, keys, counters, history, broken, altered>>

ReadKey(s) ==
    /\ Reads(s, "ek", "ek")
    /\ wire' = Rest(s, <<CipherText(Item(s))>>)
    /\ Split(s, Secret(Item(s)))
    /\ UNCHANGED <<ends, counters, history, broken, altered>>

\* ML-KEM gives a useless secret for a ciphertext it rejects, and no error.
ReadCipherText(s) ==
    /\ Reads(s, "ct", "ct")
    /\ wire' = Rest(s, <<>>)
    /\ Split(s, Decaps(Item(s)))
    /\ UNCHANGED <<ends, counters, history, broken, altered>>

\* try_from_bytes may also notice that a key or a ciphertext is malformed.
Malformed(s) ==
    /\ Reads(s, "ek", "ek") \/ Reads(s, "ct", "ct")
    /\ ~Item(s).intact
    /\ Goes(s, "failed") /\ wire' = Rest(s, <<>>)
    /\ UNCHANGED <<ends, keys, counters, history, broken, altered>>

\* A read of the handshake has waited for HANDSHAKE_TIMEOUT.
TimeOut(s) ==
    /\ TimedRead(s)
    /\ Goes(s, "failed")
    /\ UNCHANGED <<ends, wire, keys, counters, history, broken, altered>>

\* A read meets the end of the stream.
EndOfStream(s) ==
    /\ phase[s] \in Handshaking \cup {"open"}
    /\ wire[Peer(s)] = <<>>
    /\ broken \/ phase[Peer(s)] \in Ended
    /\ Goes(s, IF phase[s] = "open" THEN "closed" ELSE "failed")
    /\ UNCHANGED <<ends, wire, keys, counters, history, broken, altered>>

-----------------------------------------------------------------------------
\* SecureWriter::send
Send(s, b) ==
    /\ phase[s] = "open"
    /\ Len(sealed[s]) < MAX_SENT
    /\ LET f == Frame(sendKey[s], sealCount[s], b)
       IN  /\ sealed' = [sealed EXCEPT ![s] = Append(@, f)]
           /\ wire' = [wire EXCEPT ![s] = IF broken THEN @ ELSE Append(@, f)]
    /\ sealCount' = [sealCount EXCEPT ![s] = @ + 1]
    /\ UNCHANGED <<ends, phase, keys, openCount, got, rewritten, broken, altered>>

\* A faulty variant: the largest frame is refused.
LengthBelow(b) == SIZE[b] + TAG_LEN \in TAG_LEN..(MAX_FRAME + TAG_LEN - 1)
LengthOk(b)    == SIZE[b] + TAG_LEN \in TAG_LEN..(MAX_FRAME + TAG_LEN)

\* A faulty variant: the tag is not verified.
DecryptsUnauthenticated(s, f) == f.key = recvKey[s] /\ f.nonce = openCount[s]

\* Decryption fails for another key, another nonce or altered bytes.
Decrypts(s, f) == f.intact /\ f.key = recvKey[s] /\ f.nonce = openCount[s]

Opens(s, f) == LengthOk(f.body) /\ Decrypts(s, f)

\* SecureReader::recv
Recv(s) ==
    /\ Reads(s, "open", "frame")
    /\ Opens(s, Item(s))
    /\ openCount' = [openCount EXCEPT ![s] = @ + 1]
    /\ got' = [got EXCEPT ![Peer(s)] = Append(@, Item(s).body)]
    /\ wire' = Rest(s, <<>>)
    /\ UNCHANGED <<ends, phase, keys, sealCount, sealed, rewritten, broken, altered>>

\* recv fails: run_peer's reader loop ends and with it the connection.
Refuse(s) ==
    /\ Reads(s, "open", "frame")
    /\ ~Opens(s, Item(s))
    /\ Goes(s, "refused")
    /\ wire' = Rest(s, <<>>)
    /\ UNCHANGED <<ends, keys, counters, history, broken, altered>>

\* The message layer ends the connection.
Quit(s) ==
    /\ phase[s] = "open"
    /\ Goes(s, "closed")
    /\ UNCHANGED <<ends, wire, keys, counters, history, broken, altered>>

-----------------------------------------------------------------------------
\* What an item may become on its way: a header any other header, those that
\* the reader accepts among them, and a frame also one of another body.
Damaged(x) ==
    CASE x.kind = "header" -> [kind : {"header"}, magic : BOOLEAN, version : Versions,
                               network : Networks, intact : {FALSE}]
      [] x.kind = "frame"  -> {[x EXCEPT !.intact = FALSE, !.body = b] : b \in Bodies}
      [] OTHER             -> {[x EXCEPT !.intact = FALSE]}

Alter(s) ==
    /\ altered < MAX_ALTERED
    /\ \E i \in DOMAIN wire[s] :
          /\ wire[s][i].intact
          /\ \E x \in Damaged(wire[s][i]) : wire' = [wire EXCEPT ![s][i] = x]
          /\ rewritten' = IF wire[s][i].kind = "header" THEN rewritten \cup {s} ELSE rewritten
    /\ altered' = altered + 1
    /\ UNCHANGED <<ends, phase, keys, counters, sealed, got, broken>>

\* The connection breaks; of what was on its way only a part arrives.
Break ==
    /\ ~broken
    /\ broken' = TRUE
    /\ \E n \in 0..Len(wire["initiator"]), m \in 0..Len(wire["responder"]) :
          wire' = [s \in Sides |-> SubSeq(wire[s], 1, IF s = "initiator" THEN n ELSE m)]
    /\ UNCHANGED <<ends, phase, keys, counters, history, altered>>

TransportInit ==
    /\ version \in [Sides -> Versions]
    /\ network \in [Sides -> Networks]
    /\ phase = [s \in Sides |-> IF s = "initiator" THEN "start" ELSE "header"]
    /\ wire = [s \in Sides |-> <<>>]
    /\ sendKey = [s \in Sides |-> NoKey] /\ recvKey = [s \in Sides |-> NoKey]
    /\ sealCount = [s \in Sides |-> 0] /\ openCount = [s \in Sides |-> 0]
    /\ sealed = [s \in Sides |-> <<>>] /\ got = [s \in Sides |-> <<>>]
    /\ rewritten = {} /\ broken = FALSE /\ altered = 0

TransportNext ==
    \/ Greet
    \/ \E s \in Sides :
          \/ ReadHeader(s) \/ ReadKey(s) \/ ReadCipherText(s) \/ Malformed(s)
          \/ TimeOut(s) \/ EndOfStream(s)
          \/ \E b \in Bodies : Send(s, b)
          \/ Recv(s) \/ Refuse(s) \/ Quit(s) \/ Alter(s)
    \/ Break

\* Only this side's own timer is assumed to run: the peer may stall and the
\* network may swallow everything.
TransportFairness ==
    WF_transportVars(Greet) /\ \A s \in Sides : WF_transportVars(TimeOut(s))

TransportSpec == TransportInit /\ [][TransportNext]_transportVars /\ TransportFairness

-----------------------------------------------------------------------------
(***************************************************************************)
(* Properties.                                                             *)
(***************************************************************************)
BodiesOf(fs) == [i \in DOMAIN fs |-> fs[i].body]

Channel == INSTANCE FrameChannel WITH sent <- [s \in Sides |-> BodiesOf(sealed[s])]

\* Whatever is altered or lost, each side receives a prefix of what the other
\* one sent.
ImplementsChannel == Channel!Spec

\* No key is used twice with one nonce, in either direction: counter nonces
\* of the two directions coincide, so their keys must differ.
NonceUsedOnce ==
    \A s, u \in Sides : \A i \in DOMAIN sealed[s], j \in DOMAIN sealed[u] :
        sealed[s][i].key = sealed[u][j].key /\ sealed[s][i].nonce = sealed[u][j].nonce
            => s = u /\ i = j

\* A frame is refused only if the network altered something or the frame is
\* larger than MAX_FRAME: the two counters never drift apart.
RefusesOnlyDamage ==
    \A s \in Sides : phase[s] = "refused" =>
        altered > 0 \/ \E i \in DOMAIN sealed[Peer(s)] : SIZE[sealed[Peer(s)][i].body] > MAX_FRAME

\* Frames get through only between sides that hold the same keys.  Each side
\* checks the other one's header, so one altered header never lets nodes of
\* different versions or networks talk: that takes an altered one each way, which
\* nobody notices, because the keys do not depend on the headers.
DeliversOnlyAgreed ==
    \A s \in Sides : got[s] # <<>> =>
        /\ sendKey[s] = recvKey[Peer(s)] /\ recvKey[s] = sendKey[Peer(s)]
        /\ \/ version[s] = version[Peer(s)] /\ network[s] = network[Peer(s)]
           \/ rewritten = Sides

\* A handshake ends on each side, even when the other one falls silent.
HandshakeEnds == \A s \in Sides : <>(phase[s] \in Ended \cup {"open"})
=============================================================================
