------------------------------ MODULE MCWallet ------------------------------
(***************************************************************************)
(* Instances of Wallet: a wallet with a coin, an immature coinbase and a   *)
(* vault coin, and one that holds a timelocked coin.                       *)
(***************************************************************************)
EXTENDS Wallet

Coin(amount, scheme, key, lockHeight, coinbase) ==
    [output |-> [amount |-> amount,
                 lock |-> [scheme |-> scheme, pkh |-> key, height |-> lockHeight]],
     height |-> 0, coinbase |-> coinbase]

Op(n) == <<<<"old", n>>, 1>>

Plain  == [op \in {Op(1), Op(2), Op(3), Op(4)} |->
             CASE op = Op(1) -> Coin(4, "MlDsa", "me", 0, FALSE)
               [] op = Op(2) -> Coin(3, "MlDsa", "me", 0, TRUE)
               [] op = Op(3) -> Coin(3, "SlhDsa", "vault", 0, FALSE)
               [] op = Op(4) -> Coin(9, "MlDsa", "you", 0, FALSE)]

Locked == [op \in {Op(1), Op(2)} |->
             CASE op = Op(1) -> Coin(4, "MlDsa", "me", 0, FALSE)
               [] op = Op(2) -> Coin(5, "MlDsa", "me", 1, FALSE)]

You      == <<"MlDsa", "you">>
MCOwned  == {<<"MlDsa", "me">>, <<"SlhDsa", "vault">>}
MCReward == [h \in 0..3 |-> 2]
\* 0 is refused by validation, 40 + 1 overflows.
MCPays   == {[to |-> You, amount |-> a, fee |-> 1] : a \in {0, 3, 40}}
              \cup {[to |-> <<"SlhDsa", "you">>, amount |-> 4, fee |-> f] : f \in {1, 2}}
              \cup {[to |-> <<"SlhDsa", "vault">>, amount |-> 2, fee |-> 1]}
OnePay   == {[to |-> You, amount |-> 3, fee |-> 1]}
NoTxs    == {}
AllRpc   == [s \in Sessions |-> "rpc"]
Mixed    == [s \in Sessions |-> IF s = "s1" THEN "cli" ELSE "rpc"]
=============================================================================
