------------------------- MODULE MCColorConversion -------------------------
(* Instances for TLC: colours at the corners of the colour cube, where the   *)
(* chroma shares are largest and smallest, and sizes with and without an     *)
(* odd edge.                                                                 *)
EXTENDS ColorConversion

MCSizes      == {<<1, 1>>, <<2, 2>>, <<3, 2>>, <<2, 3>>, <<4, 2>>, <<3, 3>>}
MCPalette    == {<<0, 0, 255>>, <<255, 255, 0>>}
MCPalette565 == {<<31, 0, 0>>, <<0, 50, 20>>}
MCSamples    == {15 * k : k \in 0..17} \cup {16, 17, 127, 128, 129, 254}
=============================================================================
