-------------------------------- MODULE Wire --------------------------------
(***************************************************************************)
(* The canonical binary encoding (core/src/encode.rs) of transactions,     *)
(* blocks and messages (core/src/tx.rs, core/src/block.rs,                 *)
(* net/src/message.rs).  A type is a codec: how encode_into writes each    *)
(* value of it, and what decode makes of the front of a byte string.       *)
(*                                                                         *)
(* A byte string is a sequence of tokens: an integer of any width, a hash  *)
(* or a key is one token, and so is a count.  Only the nonce of Hello has  *)
(* two, since a reader looks at how much of it is left.  A behaviour takes *)
(* the encoding of a value and edits it.                                   *)
(***************************************************************************)
EXTENDS Naturals, Sequences, SequencesExt

CONSTANTS
    Tokens,       \* those an edit may write
    MAX_TX_IO, MAX_FIELD_LEN, MAX_BLOCK_TXS, MAX_INV, MAX_LOCATOR, MAX_ADDRS,
    Transfers,    \* values to encode: [as, value], as = "tx", "block" or "message"
    Signed,       \* <<body, input index, output it spends>>
    MAX_EDITS     \* bound of the model

VARIABLES
    origin,    \* [as, value]: what was encoded
    bytes,     \* its encoding, as edited
    edits

wireVars == <<origin, bytes, edits>>

-----------------------------------------------------------------------------
(***************************************************************************)
(* Codecs: [write, read], two functions.                                   *)
(***************************************************************************)
Bytes     == Seq(Nat)
Values(c) == DOMAIN c.write

\* The outcomes of a read: an error, or a value and what follows it.
Fails        == [ok |-> FALSE, value |-> <<>>, rest |-> <<>>]
Yields(v, r) == [ok |-> TRUE, value |-> v, rest |-> r]

\* One of the tokens.
Token(ts) ==
    [write |-> [v \in ts |-> <<v>>],
     read  |-> [s \in Bytes |-> IF s # <<>> /\ Head(s) \in ts
                                THEN Yields(Head(s), Tail(s)) ELSE Fails]]

Word == Token(Nat)

\* Nothing at all.
Unit == [write |-> [v \in {<<>>} |-> <<>>], read |-> [s \in Bytes |-> Yields(<<>>, s)]]

\* A field, then another.
Then(a, b) ==
    [write |-> [v \in Values(a) \X Values(b) |-> a.write[v[1]] \o b.write[v[2]]],
     read  |-> [s \in Bytes |->
                  LET d == a.read[s]
                      e == b.read[d.rest]
                  IN  IF d.ok /\ e.ok THEN Yields(<<d.value, e.value>>, e.rest) ELSE Fails]]

a ** b == Then(a, b)

\* The first n of the items v, written one after the other.
Written(c, v, n) ==
    LET w[i \in 0..n] == IF i = 0 THEN <<>> ELSE w[i - 1] \o c.write[v[i]]
    IN  w[n]

\* An item more than the list d was read with.
OneMoreItem(c, d) ==
    LET e == c.read[d.rest]
    IN  IF d.ok /\ e.ok THEN Yields(Append(d.value, e.value), e.rest) ELSE Fails

\* n items, read one after the other.
Items(c, s, n) ==
    LET got[i \in 0..n] == IF i = 0 THEN Yields(<<>>, s) ELSE OneMoreItem(c, got[i - 1])
    IN  got[n]

\* A count of at most max, then so many items.
List(c, max) ==
    [write |-> [v \in {u \in Seq(Values(c)) : Len(u) <= max} |->
                  <<Len(v)>> \o Written(c, v, Len(v))],
     read  |-> [s \in Bytes |-> IF s # <<>> /\ Head(s) <= max
                                THEN Items(c, Tail(s), Head(s)) ELSE Fails]]

\* A faulty variant: what a frame has left over is dropped.
FrameAsRead(d) == d.ok

\* br.finish(): the frame of a body holds nothing but the body.
FrameUsedUp(d) == d.ok /\ d.rest = <<>>

\* put_vec of an encoding.
Framed(c) ==
    [write |-> [v \in {u \in Values(c) : Len(c.write[u]) <= MAX_FIELD_LEN} |->
                  <<Len(c.write[v])>> \o c.write[v]],
     read  |-> [s \in Bytes |->
                  IF s # <<>> /\ Head(s) <= MAX_FIELD_LEN /\ Head(s) < Len(s)
                  THEN LET d == c.read[SubSeq(s, 2, Head(s) + 1)]
                       IN  IF FrameUsedUp(d)
                           THEN Yields(d.value, SubSeq(s, Head(s) + 2, Len(s))) ELSE Fails
                  ELSE Fails]]

\* An arm of the match on a tag, and the others.
Arm(tag, c, others) ==
    [write |-> [v \in ({tag} \X Values(c)) \cup Values(others) |->
                  IF v[1] = tag THEN <<tag>> \o c.write[v[2]] ELSE others.write[v]],
     read  |-> [s \in Bytes |->
                  IF s # <<>> /\ Head(s) = tag
                  THEN LET d == c.read[Tail(s)]
                       IN  IF d.ok THEN Yields(<<tag, d.value>>, d.rest) ELSE Fails
                  ELSE others.read[s]]]

NoArm == [write |-> [v \in {} |-> <<>>], read |-> [s \in Bytes |-> Fails]]

-----------------------------------------------------------------------------
(***************************************************************************)
(* The types.                                                              *)
(***************************************************************************)
Vec         == List(Word, MAX_FIELD_LEN)
Hashes(max) == List(Word, max)

\* The nonce of Hello: 0 unless enough is left for one.
OptionalNonce ==
    [write |-> [v \in Nat \X Nat |-> v],
     read  |-> [s \in Bytes |-> IF Len(s) >= 2 THEN Yields(SubSeq(s, 1, 2), SubSeq(s, 3, Len(s)))
                                ELSE Yields(<<0, 0>>, s)]]

Scheme      == Token({0, 1})
LockCodec   == Arm(0, Scheme ** Word, Arm(1, Scheme ** Word ** Word, NoArm))
OutputCodec == Word ** LockCodec
InputCodec  == Word ** Word

\* TxBody: version, inputs, outputs, locktime, coinbase_data.
BodyCodec   == Word ** List(InputCodec, MAX_TX_IO) ** List(OutputCodec, MAX_TX_IO) ** Word ** Vec

TxCodec     == Framed(BodyCodec) ** List(Vec ** Vec, MAX_TX_IO)
HeaderCodec == Word ** Word ** Word ** Word ** Word ** Word ** Word
BlockCodec  == HeaderCodec ** List(TxCodec, MAX_BLOCK_TXS)

HelloCodec  == Word ** Word ** Word ** Word ** OptionalNonce
InvCodec    == Hashes(MAX_INV) ** Hashes(MAX_INV)

\* Ping, Pong, Inv, GetData, GetBlocks, Block, Tx, GetAddr, Addr.
OtherArms == Arm(2, Word, Arm(3, Word, Arm(4, InvCodec, Arm(5, InvCodec,
             Arm(6, Hashes(MAX_LOCATOR), Arm(7, BlockCodec, Arm(8, TxCodec,
             Arm(9, Unit, Arm(10, List(Word ** Word, MAX_ADDRS), NoArm)))))))))

MessageCodec == Arm(1, HelloCodec, OtherArms)

KnownTags == 1..10

Codec(as) == CASE as = "tx" -> TxCodec [] as = "block" -> BlockCodec
               [] as = "message" -> MessageCodec

-----------------------------------------------------------------------------
\* decode_all of a transaction or a block: nothing may follow.
DecodeAll(c, s) ==
    LET d == c.read[s] IN IF d.ok /\ d.rest = <<>> THEN d ELSE Fails

Unknown == <<"unknown">>

\* A faulty variant: a message must be used up.
DecodeMessageStrict(s) == DecodeAll(MessageCodec, s)

\* Message::decode: an unknown tag is no error, nor are further bytes.
DecodeMessage(s) ==
    IF s # <<>> /\ Head(s) \notin KnownTags THEN Yields(Unknown, <<>>)
    ELSE MessageCodec.read[s]

\* A faulty variant: the amount and lock that are spent are left out.
PreimageOfBody(signed) == BodyCodec.write[signed[1]] \o <<signed[2]>>

\* What sighash hashes after its tag, and what txid does up to the index.
Preimage(signed) ==
    BodyCodec.write[signed[1]] \o <<signed[2]>> \o OutputCodec.write[signed[3]]

\* What is encoded has the form its decoder allows: sequences no longer than
\* their limits, bodies no larger than a field may be.
ASSUME WireAssumption ==
    /\ {MAX_TX_IO, MAX_FIELD_LEN, MAX_BLOCK_TXS, MAX_INV, MAX_LOCATOR, MAX_ADDRS} \subseteq Nat
    /\ Tokens \subseteq Nat
    /\ \A t \in Transfers : t.as \in {"tx", "block", "message"} /\ t.value \in Values(Codec(t.as))
    /\ Signed \subseteq Values(BodyCodec) \X Nat \X Values(OutputCodec)

-----------------------------------------------------------------------------
\* Somebody changes, drops or inserts one token.
Edit ==
    /\ origin.as # "sighash"
    /\ edits < MAX_EDITS
    /\ edits' = edits + 1
    /\ \/ \E i \in DOMAIN bytes, x \in Tokens : bytes' = [bytes EXCEPT ![i] = x]
       \/ \E i \in DOMAIN bytes : bytes' = RemoveAt(bytes, i)
       \/ \E i \in 1..(Len(bytes) + 1), x \in Tokens : bytes' = InsertAt(bytes, i, x)
    /\ UNCHANGED origin

WireInit ==
    /\ edits = 0
    /\ \/ origin \in Transfers /\ bytes = Codec(origin.as).write[origin.value]
       \/ \E s \in Signed : origin = [as |-> "sighash", value |-> s] /\ bytes = Preimage(s)

WireSpec == WireInit /\ [][Edit]_wireVars

-----------------------------------------------------------------------------
(***************************************************************************)
(* Properties.                                                             *)
(***************************************************************************)
\* What was encoded is decoded again, and a transaction or block has no second
\* encoding: whatever else decode_all accepts is the encoding of what it
\* returns, so that txids, witness roots and sizes do not depend on the sender.
OneEncoding ==
    origin.as \in {"tx", "block"} =>
        LET d == DecodeAll(Codec(origin.as), bytes)
        IN  /\ edits = 0 => d.ok /\ d.value = origin.value
            /\ d.ok => Codec(origin.as).write[d.value] = bytes

\* A newer peer's message with further fields is read as the older message it
\* starts with; a message that lost its end is refused, but for Hello's nonce.
ForwardCompatible ==
    origin.as = "message" =>
        LET sent == MessageCodec.write[origin.value]
            got  == DecodeMessage(bytes)
        IN  /\ (IsPrefix(sent, bytes) => got.ok /\ got.value = origin.value)
            /\ (IsStrictPrefix(bytes, sent) /\ got.ok =>
                   origin.value[1] = 1 /\ Len(sent) - Len(bytes) <= 2)

\* A signature is for one body, one of its inputs and the output that one
\* spends: no other triple is hashed from the same bytes, although nothing
\* but the prefixes of the body separates the three.
SighashBinds ==
    origin.as = "sighash" =>
        \A s \in Signed : Preimage(s) = bytes => s = origin.value
=============================================================================
