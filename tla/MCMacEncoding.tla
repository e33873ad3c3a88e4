--------------------------- MODULE MCMacEncoding ---------------------------
(* Messages whose header ends before, at and after the end of a block, made *)
(* of zeros, which padding and lengths consist of too, and of ones.         *)
EXTENDS MacEncoding

Fill(b, n) == [i \in 1..n |-> b]
Strings(lengths) == {Fill(b, n) : b \in {0, 1}, n \in lengths}

Messages ==
  [nonce : Strings({nonceSize}), aad : Strings({0, 1, 35, 36, 37, 100}),
   ct : Strings({0, 1, 64})]
=============================================================================
