--------------------------- MODULE MCCommandLoops ---------------------------
(* Two nonces next to each other, and messages that end at, before and after *)
(* the end of a piece, the longest at the last block before the next nonce.  *)
EXTENDS CommandLoops

Nonces == {0, 1}
Lengths == {0, 1024, 1025, 2064}
=============================================================================
