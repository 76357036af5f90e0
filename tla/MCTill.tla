------------------------------- MODULE MCTill -------------------------------
(***************************************************************************)
(* One till, two coins of two blocks, two spenders.  Payments of one coin, *)
(* of both, of none and of one coin twice, with anchors in a third block,  *)
(* and one of each defect.  Another till touches this one only by what it  *)
(* broadcasts, which MarkSpent covers.                                     *)
(***************************************************************************)
EXTENDS Till, TLC

CONSTANTS till1, x, y, blockX, blockY, carrier, alice, carol, bob, change

Spend(coin, key) == [prev |-> coin, pubkey |-> key]
Signed(m) == [m EXCEPT !.inputs = [i \in DOMAIN m.inputs |->
                [prev |-> m.inputs[i].prev, pubkey |-> m.inputs[i].pubkey,
                 sig |-> Sign(m, i, m.inputs[i].pubkey)]]]
Bundle(coin) == [coin |-> coin, folds |-> TRUE, anchor |-> NoAnchor]
Anchor == [carrier |-> carrier, binds |-> TRUE]
Out(value, script) == [value |-> value, script |-> script]

DraftX == [inputs |-> <<Spend(x, alice)>>, bundles |-> <<Bundle(x)>>,
           outputs |-> <<Out(2, bob)>>, risk |-> 2]
DraftXY == [inputs |-> <<Spend(x, alice), Spend(y, carol)>>,
            bundles |-> <<Bundle(x), Bundle(y)>>,
            outputs |-> <<Out(2, bob), Out(3, change)>>, risk |-> 2]

PayX == Signed(DraftX)
PayXY == Signed(DraftXY)
PayXTwice == Signed([DraftXY EXCEPT !.inputs = <<Spend(x, alice), Spend(x, alice)>>,
                                    !.bundles = <<Bundle(x), Bundle(x)>>])

PayXYAnchored == [PayXY EXCEPT !.bundles[1].anchor = Anchor]
PayNothing == [DraftX EXCEPT !.inputs = << >>, !.bundles = << >>]

Mined == (x :> blockX) @@ (y :> blockY)
Worth == (x :> 3) @@ (y :> 2)
Requested == <<Out(2, bob)>>

OneDefect ==
  {[PayX EXCEPT !.inputs[1].sig = Sign(DraftX, 1, carol)],
   [PayX EXCEPT !.inputs[1].sig.lowS = FALSE],
   [PayXY EXCEPT !.outputs[2] = Out(2, change)],
   [PayX EXCEPT !.bundles[1].coin = y],
   [PayX EXCEPT !.bundles[1].folds = FALSE],
   [PayX EXCEPT !.bundles[1].anchor = [Anchor EXCEPT !.binds = FALSE]],
   [PayX EXCEPT !.bundles = << >>],
   Signed([DraftX EXCEPT !.outputs = <<Out(3, bob)>>]),
   Signed([DraftX EXCEPT !.outputs = <<Out(2, bob), Out(2, change)>>]),
   [PayX EXCEPT !.risk = 9]}

Honest == {PayX, PayXY}
Handed == Honest \cup OneDefect \cup {PayXYAnchored, PayXTwice, PayNothing}

\* All headers, or those of the carrier and the later coin.
Headers == {Blocks, Blocks \ {blockX}}

Wired(bus, oracle) == [bus |-> bus, oracle |-> oracle]
WiredFully == {Wired(TRUE, TRUE)}
WiredAnyhow == {Wired(TRUE, TRUE), Wired(FALSE, FALSE)}

\* Two outputs whose sum is beyond the width of an amount.
Overflowing == {PayX, Signed([DraftX EXCEPT !.outputs = <<Out(2, bob), Out(7, change)>>])}
=============================================================================
