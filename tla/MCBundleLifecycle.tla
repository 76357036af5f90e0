--------------------------- MODULE MCBundleLifecycle ---------------------------
\* Three transactions, the coin's with two fields of which the wallet may
\* reveal either; blocks of one subtree and of two.
EXTENDS BundleLifecycle

CONSTANTS ta, tb, tc, bytes1, bytes2, bytes3

Fields ==
  (ta :> <<Field(0, bytes1), Field(1, bytes2)>>) @@
  (tb :> <<Field(0, bytes2)>>) @@
  (tc :> <<Field(0, bytes3)>>)

\* The coin first, second, and alone in an odd last subtree.
Mined == {<<ta>>, <<tb, ta>>, <<tb, tc, ta>>, <<tc>>}

\* The coin and one other transaction.
MinedFew == {<<ta>>, <<tb, ta>>, <<tb>>}
==============================================================================
