------------------------------ MODULE MCWallet ------------------------------
(***************************************************************************)
(* Two coins, two keys for one of them, bundles with and without fields.   *)
(* One request comes in an array with room for one more output (three      *)
(* outputs read from the wire one by one lie in an array of four) and asks *)
(* twice for the same output; one comes as a literal without room.         *)
(***************************************************************************)
EXTENDS Wallet

CONSTANTS x, y, kx, ky, bob, change1, change2

Bundle(coin, fields) == [coin |-> coin, folds |-> TRUE, fields |-> fields]
Out(value, script) == [value |-> value, script |-> script]

\* The coin x may be stored again with another key.
MayOwn == {<<x, kx>>, <<x, ky>>, <<y, ky>>}

Lists == {<<Bundle(x, TRUE)>>, <<Bundle(x, TRUE), Bundle(y, TRUE)>>, <<Bundle(y, FALSE)>>}
Decoded == [outputs |-> <<Out(1, bob), Out(1, bob), Out(2, bob)>>, room |-> 1]
Literal == [outputs |-> <<Out(2, bob)>>, room |-> 0]
Received == <<Decoded, Literal>>
ChangeOutputs == {Out(1, change1), Out(2, change2)}
=============================================================================
